---- MODULE Spec2Model ----
(***************************************************************************)
(* A model of the DMD 5620 core (sethm/dmd_core).  This part covers the    *)
(* 2681 DUART of src/duart.rs: the two ports' receive and transmit state   *)
(* machines, the command register, the input port change register and the  *)
(* host-facing queues.                                                     *)
(*                                                                         *)
(* Conventions                                                             *)
(*  - a u8 is an integer 0..255; the bit operators below are the 8-bit     *)
(*    ones of Rust (&, |, !);                                              *)
(*  - Option<u8> is a byte or None;                                        *)
(*  - an Instant is kept as its distance from Instant::now(), in           *)
(*    nanoseconds, floored where the code can no longer tell the           *)
(*    difference: `Instant::now() >= t` is `t = 0`, `t = now + d` is       *)
(*    `t' = d`, and the passage of time (Tick) lowers every stored         *)
(*    Instant.  next_vblank is compared with `>`, so it floors at -1.      *)
(***************************************************************************)
EXTENDS Integers, Sequences, FiniteSets, TLC

(***************************************************************************)
(* Bounds of the model and the inputs the environment draws from.          *)
(***************************************************************************)
\* longest host-facing RX queue the host lets build up
MaxRxQueue == 4
\* longest host-facing TX queue the host lets build up before it polls
MaxTxQueue == 2
\* nanoseconds that pass in one Tick
TickNs == 20000000

\* data bytes: 0x02 (bit 3 clear; the keyboard status request) and 0x48 (bit 3 set)
Bytes == {2, 72}
\* clock-select values written: 0x44 selects 300 baud in both tables
CsrVals == {68}
\* auxiliary control values written: baud table A (0x00) and table B (0x80)
AcrVals == {0, 128}
\* interrupt mask values written
ImrVals == {0, 255}
\* output port bits set and reset
OpVals == {8}
\* command register values written: the four enable/disable bits alone, enable
\* and disable together, both enables, and the auxiliary commands 1..7
CmdVals == {1, 2, 4, 8, 3, 12, 5, 16, 32, 48, 64, 80, 96, 112}
\* the commands of the receiver: enable, disable, both, reset receiver, reset error
RxCmds == {1, 2, 3, 32, 64}
\* the commands of the transmitter: enable, disable, both, reset transmitter,
\* and reset mode pointer
TxCmds == {4, 8, 12, 48, 16}
\* mouse buttons: the three buttons and one value that is no button
Buttons == {0, 1, 2, 3}

(***************************************************************************)
(* 8-bit arithmetic.                                                       *)
(***************************************************************************)
BitAt(v, k) == (v \div k) % 2

AndBits(a, b) ==
    BitAt(a, 1) * BitAt(b, 1)
    + 2 * (BitAt(a, 2) * BitAt(b, 2))
    + 4 * (BitAt(a, 4) * BitAt(b, 4))
    + 8 * (BitAt(a, 8) * BitAt(b, 8))
    + 16 * (BitAt(a, 16) * BitAt(b, 16))
    + 32 * (BitAt(a, 32) * BitAt(b, 32))
    + 64 * (BitAt(a, 64) * BitAt(b, 64))
    + 128 * (BitAt(a, 128) * BitAt(b, 128))

\* a & b, tabulated once
AndTable == [a \in 0..255 |-> [b \in 0..255 |-> AndBits(a, b)]]

AND(a, b) == AndTable[a][b]

OR(a, b) == a + b - AND(a, b)

NOT8(a) == 255 - a

\* v & !m
Clear(v, m) == AND(v, NOT8(m))

Has(v, m) == AND(v, m) # 0

(***************************************************************************)
(* Constants of src/duart.rs.                                              *)
(***************************************************************************)
VERTICAL_BLANK_DELAY == 16666666

BAUD_RATES_A == <<50, 110, 135, 200, 300, 600, 1200, 1050, 2400, 4800, 7200, 9600, 38400>>
BAUD_RATES_B == <<75, 110, 135, 150, 300, 600, 1200, 2000, 2400, 4800, 1800, 9600, 19200>>

PORT_0 == 0
PORT_1 == 1
Ports == {PORT_0, PORT_1}

MR12A == 3
CSRA == 7
CRA == 11
THRA == 15
RHRA == 15
IPCR_ACR == 19
ISR_MASK == 23
MR12B == 35
CSRB == 39
CRB == 43
THRB == 47
RHRB == 47
IP_OPCR == 55
OPBITS_SET == 59
OPBITS_RESET == 63

CNF_ETX == 1
CNF_ERX == 2

STS_RXR == 1
STS_FFL == 2
STS_TXR == 4
STS_TXE == 8
STS_OER == 16
STS_PER == 32
STS_FER == 64
STS_RXB == 128

CMD_ERX == 1
CMD_DRX == 2
CMD_ETX == 4
CMD_DTX == 8

CR_RST_MR == 1
CR_RST_RX == 2
CR_RST_TX == 3
CR_RST_ERR == 4
CR_RST_BRK == 5
CR_START_BRK == 6
CR_STOP_BRK == 7

ISTS_TAI == 1
ISTS_RAI == 2
ISTS_DBA == 4
ISTS_TBI == 16
ISTS_RBI == 32
ISTS_DBB == 64
ISTS_IPC == 128

KEYBOARD_INT == 4
MOUSE_BLANK_INT == 2
TX_INT == 16
RX_INT == 32

RX_FIFO_LEN == 3
RX_FIFO_INIT_LEN == 4

\* the initial char_delay, Duration::new(0, 1_000_000)
INIT_CHAR_DELAY == 1000000

\* Option::None
None == -1

IsSome(o) == o # None

(***************************************************************************)
(* ConstGenericRingBuffer<u8, RX_FIFO_INIT_LEN>: the front of the buffer   *)
(* is the head of the sequence.  push on a full buffer overwrites the      *)
(* oldest element; dequeue takes the front.                                *)
(***************************************************************************)
rb_push(f, c) ==
    IF Len(f) >= RX_FIFO_INIT_LEN THEN Append(Tail(f), c) ELSE Append(f, c)

rb_front(f) == IF f = <<>> THEN None ELSE Head(f)

rb_dequeue(f) == IF f = <<>> THEN f ELSE Tail(f)

(***************************************************************************)
(* VecDeque<u8>: the front is the head of the sequence.                    *)
(***************************************************************************)
\* faulty variant of push_front: the character goes to the back
push_at_back(q, c) == q \o <<c>>

push_front(q, c) == <<c>> \o q

back(q) == IF q = <<>> THEN None ELSE q[Len(q)]

pop_back(q) == IF q = <<>> THEN q ELSE SubSeq(q, 1, Len(q) - 1)

(***************************************************************************)
(* FifoQueue (src/utils.rs): a circular buffer with three slots.  buf is   *)
(* indexed from 0; push and pop give the queue after the call and the      *)
(* Result: "Ok" (for pop, with the character c) or the FifoError.          *)
(***************************************************************************)
FIFO_LEN == 3

NewFifo == [buf |-> [i \in 0 .. FIFO_LEN - 1 |-> 0],
            read_ptr |-> 0, write_ptr |-> 0, len |-> 0]

\* faulty variant of push: a full queue loses its oldest character to c
push_overwrites(f, c) ==
    IF f.len = FIFO_LEN
    THEN [fifo |-> [f EXCEPT !.buf[f.write_ptr] = c,
                             !.write_ptr = (f.write_ptr + 1) % FIFO_LEN,
                             !.read_ptr = (f.read_ptr + 1) % FIFO_LEN],
          res |-> "Overflow"]
    ELSE [fifo |-> [f EXCEPT !.buf[f.write_ptr] = c,
                             !.write_ptr = (f.write_ptr + 1) % FIFO_LEN,
                             !.len = f.len + 1],
          res |-> "Ok"]

push(f, c) ==
    IF f.len = FIFO_LEN
    THEN [fifo |-> f, res |-> "Overflow"]
    ELSE [fifo |-> [f EXCEPT !.buf[f.write_ptr] = c,
                             !.write_ptr = (f.write_ptr + 1) % FIFO_LEN,
                             !.len = f.len + 1],
          res |-> "Ok"]

pop(f) ==
    IF f.len = 0
    THEN [fifo |-> f, res |-> "Underrun", c |-> 0]
    ELSE [fifo |-> [f EXCEPT !.read_ptr = (f.read_ptr + 1) % FIFO_LEN,
                             !.len = f.len - 1],
          res |-> "Ok", c |-> f.buf[f.read_ptr]]

clear(f) == [f EXCEPT !.read_ptr = 0, !.write_ptr = 0, !.len = 0]

(***************************************************************************)
(* Port                                                                    *)
(***************************************************************************)
NewPort ==
    [ mode |-> <<0, 0>>,
      mode_ptr |-> 0,
      stat |-> 0,
      conf |-> 0,
      rx_fifo |-> <<>>,
      rx_shift_reg |-> None,
      tx_holding_reg |-> None,
      tx_shift_reg |-> None,
      rx_deque |-> <<>>,
      tx_deque |-> <<>>,
      char_delay |-> INIT_CHAR_DELAY,
      next_tx_service |-> 0,
      next_rx_service |-> 0 ]

\* mode[1] is the second element of the 1-based tuple
loopback(port) == AND(port.mode[2], 192) = 128

rx_enabled(port) == Has(port.conf, CNF_ERX)

\* faulty variant of rx_read_char: RxRDY survives the read that empties the
\* FIFO
rx_read_char_keeps_ready(port) ==
    IF rx_enabled(port)
    THEN LET p1 == [port EXCEPT !.rx_fifo = rb_dequeue(@),
                                !.stat = Clear(@, STS_FFL)]
             p2 == IF IsSome(p1.rx_shift_reg)
                   THEN LET f == rb_push(p1.rx_fifo, p1.rx_shift_reg)
                        IN  [p1 EXCEPT !.rx_fifo = f,
                                       !.stat = IF Len(f) >= RX_FIFO_LEN
                                                THEN OR(OR(@, STS_RXR), STS_FFL)
                                                ELSE OR(@, STS_RXR)]
                   ELSE p1
         IN  [p2 EXCEPT !.stat = Clear(@, OR(STS_PER, STS_RXB))]
    ELSE port

\* the state of the port after rx_read_char
rx_read_char(port) ==
    IF rx_enabled(port)
    THEN LET p1 == [port EXCEPT !.rx_fifo = rb_dequeue(@),
                                !.stat = Clear(@, STS_FFL)]
             p2 == IF IsSome(p1.rx_shift_reg)
                   THEN LET f == rb_push(p1.rx_fifo, p1.rx_shift_reg)
                        IN  [p1 EXCEPT !.rx_fifo = f,
                                       !.stat = IF Len(f) >= RX_FIFO_LEN
                                                THEN OR(OR(@, STS_RXR), STS_FFL)
                                                ELSE OR(@, STS_RXR)]
                   ELSE p1
             p3 == IF p2.rx_fifo = <<>>
                   THEN [p2 EXCEPT !.stat = Clear(@, STS_RXR)]
                   ELSE p2
         IN  [p3 EXCEPT !.stat = Clear(@, OR(STS_PER, STS_RXB))]
    ELSE port

\* the value rx_read_char returns
rx_read_val(port) ==
    IF rx_enabled(port) THEN rb_front(port.rx_fifo) ELSE None

\* faulty variant of rx_char: FIFO-FULL is raised one character early
rx_char_full_early(port, c) ==
    LET p1 == IF Len(port.rx_fifo) < RX_FIFO_LEN
              THEN LET f == rb_push(port.rx_fifo, c)
                   IN  [port EXCEPT !.rx_fifo = f,
                                    !.stat = IF Len(f) >= RX_FIFO_LEN - 1
                                             THEN OR(@, STS_FFL) ELSE @]
              ELSE [port EXCEPT !.stat = IF IsSome(port.rx_shift_reg)
                                         THEN OR(@, STS_OER) ELSE @,
                                !.rx_shift_reg = c]
    IN  [p1 EXCEPT !.stat = OR(@, STS_RXR)]

rx_char(port, c) ==
    LET p1 == IF Len(port.rx_fifo) < RX_FIFO_LEN
              THEN LET f == rb_push(port.rx_fifo, c)
                   IN  [port EXCEPT !.rx_fifo = f,
                                    !.stat = IF Len(f) >= RX_FIFO_LEN
                                             THEN OR(@, STS_FFL) ELSE @]
              ELSE [port EXCEPT !.stat = IF IsSome(port.rx_shift_reg)
                                         THEN OR(@, STS_OER) ELSE @,
                                !.rx_shift_reg = c]
    IN  [p1 EXCEPT !.stat = OR(@, STS_RXR)]

rx_service_needed(port) ==
    /\ rx_enabled(port)
    /\ port.rx_deque # <<>>
    /\ port.next_rx_service = 0

rx_service(port) ==
    IF ~rx_service_needed(port)
    THEN port
    ELSE LET p1 == IF ~loopback(port)
                   THEN rx_char([port EXCEPT !.rx_deque = pop_back(@)],
                                back(port.rx_deque))
                   ELSE port
         IN  [p1 EXCEPT !.next_rx_service = p1.char_delay]

\* faulty variant of tx_service: loopback is ignored, every character goes
\* to the host
tx_service_no_loopback(port, keyboard) ==
    IF port.tx_holding_reg = None /\ port.tx_shift_reg = None
    THEN port
    ELSE IF port.next_tx_service = 0
    THEN LET c == port.tx_shift_reg
             p1 == IF IsSome(c)
                   THEN LET q == [port EXCEPT
                                    !.stat = IF keyboard /\ c = 2
                                             THEN OR(@, STS_PER) ELSE @,
                                    !.tx_deque = push_front(@, c)]
                        IN  [q EXCEPT !.tx_shift_reg = None,
                                      !.stat = IF q.tx_holding_reg = None
                                               THEN OR(OR(@, STS_TXR), STS_TXE)
                                               ELSE @]
                   ELSE port
         IN  IF IsSome(p1.tx_holding_reg)
             THEN [p1 EXCEPT !.tx_shift_reg = p1.tx_holding_reg,
                             !.tx_holding_reg = None,
                             !.next_tx_service = p1.char_delay]
             ELSE p1
    ELSE port

tx_service(port, keyboard) ==
    IF port.tx_holding_reg = None /\ port.tx_shift_reg = None
    THEN port
    ELSE IF port.next_tx_service = 0
    THEN LET c == port.tx_shift_reg
             p1 == IF IsSome(c)
                   THEN LET q == IF loopback(port)
                                 THEN rx_char(port, c)
                                 ELSE [port EXCEPT
                                         !.stat = IF keyboard /\ c = 2
                                                  THEN OR(@, STS_PER) ELSE @,
                                         !.tx_deque = push_front(@, c)]
                        IN  [q EXCEPT !.tx_shift_reg = None,
                                      !.stat = IF q.tx_holding_reg = None
                                               THEN OR(OR(@, STS_TXR), STS_TXE)
                                               ELSE @]
                   ELSE port
         IN  IF IsSome(p1.tx_holding_reg)
             THEN [p1 EXCEPT !.tx_shift_reg = p1.tx_holding_reg,
                             !.tx_holding_reg = None,
                             !.next_tx_service = p1.char_delay]
             ELSE p1
    ELSE port

enable_tx(port) ==
    [port EXCEPT !.conf = OR(@, CNF_ETX),
                 !.stat = LET s1 == IF port.tx_holding_reg = None
                                    THEN OR(@, STS_TXR) ELSE @
                          IN  IF port.tx_shift_reg = None
                              THEN OR(s1, STS_TXE) ELSE s1]

disable_tx(port) ==
    [port EXCEPT !.conf = Clear(@, CNF_ETX),
                 !.stat = Clear(@, OR(STS_TXR, STS_TXE))]

enable_rx(port) ==
    [port EXCEPT !.conf = OR(@, CNF_ERX), !.stat = Clear(@, STS_RXR)]

disable_rx(port) ==
    [port EXCEPT !.conf = Clear(@, CNF_ERX), !.stat = Clear(@, STS_RXR)]

(***************************************************************************)
(* Duart                                                                   *)
(***************************************************************************)
NewDuart ==
    [ ports |-> [p \in Ports |-> NewPort],
      acr |-> 0,
      ipcr |-> 64,
      inprt |-> 11,
      outprt |-> 0,
      isr |-> 0,
      imr |-> 0,
      ivec |-> 0,
      next_vblank |-> VERTICAL_BLANK_DELAY ]

\* let baud_bits: usize = ((csr_bits >> 4) & 0xf) as usize
baud_bits(csr_bits) == (csr_bits \div 16) % 16

\* the index baud_bits is outside the table it is used with (the two tables
\* have 13 entries and are indexed from 0): the indexing panics
delay_rate_panics(csr_bits, acr_bits) ==
    IF AND(acr_bits, 128) = 0
    THEN baud_bits(csr_bits) >= Len(BAUD_RATES_A)
    ELSE baud_bits(csr_bits) >= Len(BAUD_RATES_B)

\* NS_PER_SEC / (baud_rate / BITS_PER_CHAR), for a clock-select value whose
\* baud_bits index one of the 13 table entries
delay_rate(csr_bits, acr_bits) ==
    LET baud_rate == IF AND(acr_bits, 128) = 0
                     THEN BAUD_RATES_A[baud_bits(csr_bits) + 1]
                     ELSE BAUD_RATES_B[baud_bits(csr_bits) + 1]
    IN  1000000000 \div (baud_rate \div 10)

vertical_blank(d) ==
    [d EXCEPT !.ivec = OR(@, MOUSE_BLANK_INT),
              !.ipcr = OR(@, 64),
              !.isr = OR(@, ISTS_IPC),
              !.inprt = IF AND(d.inprt, 4) = 0 THEN @ ELSE Clear(@, 4)]

vblank_due(d) == d.next_vblank < 0

\* the state after get_interrupt
get_interrupt(d) ==
    LET d1 == IF vblank_due(d)
              THEN vertical_blank([d EXCEPT !.next_vblank = VERTICAL_BLANK_DELAY])
              ELSE d
        d2 == IF Has(d1.ports[PORT_0].stat, STS_RXR)
              THEN [d1 EXCEPT !.ivec = OR(@, RX_INT), !.isr = OR(@, ISTS_RAI)]
              ELSE d1
        d3 == IF Has(d2.ports[PORT_1].stat, STS_RXR)
              THEN [d2 EXCEPT !.ivec = OR(@, KEYBOARD_INT), !.isr = OR(@, ISTS_RBI)]
              ELSE d2
    IN  IF Has(d3.ports[PORT_0].stat, STS_TXR)
        THEN [d3 EXCEPT !.ivec = OR(@, TX_INT), !.isr = OR(@, ISTS_TAI)]
        ELSE d3

\* the value get_interrupt returns
get_interrupt_val(d) ==
    LET val == get_interrupt(d).ivec IN IF val = 0 THEN None ELSE val

service(d) ==
    [d EXCEPT !.ports = [p \in Ports |->
        rx_service(tx_service(d.ports[p], p = PORT_1))]]

output_port(d) == NOT8(d.outprt)

rs232_rx(d, c) == [d EXCEPT !.ports[PORT_0].rx_deque = push_front(@, c)]

keyboard_rx(d, c) == [d EXCEPT !.ports[PORT_1].rx_deque = push_front(@, c)]

rs232_tx(d) == [d EXCEPT !.ports[PORT_0].tx_deque = pop_back(@)]

rs232_tx_val(d) == back(d.ports[PORT_0].tx_deque)

keyboard_tx(d) == [d EXCEPT !.ports[PORT_1].tx_deque = pop_back(@)]

keyboard_tx_val(d) == back(d.ports[PORT_1].tx_deque)

mouse_down(d, button) ==
    LET d1 == [d EXCEPT !.ipcr = 0,
                        !.inprt = OR(@, 11),
                        !.isr = OR(@, ISTS_IPC),
                        !.ivec = OR(@, MOUSE_BLANK_INT)]
    IN  CASE button = 0 -> [d1 EXCEPT !.ipcr = OR(@, 128), !.inprt = Clear(@, 8)]
          [] button = 1 -> [d1 EXCEPT !.ipcr = OR(@, 32), !.inprt = Clear(@, 2)]
          [] button = 2 -> [d1 EXCEPT !.ipcr = OR(@, 16), !.inprt = Clear(@, 1)]
          [] OTHER -> d1

mouse_up(d, button) ==
    LET d1 == [d EXCEPT !.ipcr = 0,
                        !.inprt = OR(@, 11),
                        !.isr = OR(@, ISTS_IPC),
                        !.ivec = OR(@, MOUSE_BLANK_INT)]
    IN  CASE button = 0 -> [d1 EXCEPT !.ipcr = OR(@, 128)]
          [] button = 1 -> [d1 EXCEPT !.ipcr = OR(@, 32)]
          [] button = 2 -> [d1 EXCEPT !.ipcr = OR(@, 16)]
          [] OTHER -> d1

\* the enable/disable bits of a command, transmitter first
command_tx(d, cmd, port_no) ==
    LET tx_ists == IF port_no = PORT_0 THEN ISTS_TAI ELSE ISTS_TBI
    IN  IF Has(cmd, CMD_DTX)
        THEN [d EXCEPT !.ports[port_no] = disable_tx(@),
                       !.ivec = Clear(@, TX_INT),
                       !.isr = Clear(@, tx_ists)]
        ELSE IF Has(cmd, CMD_ETX)
        THEN [d EXCEPT !.ports[port_no] = enable_tx(@),
                       !.ivec = OR(@, TX_INT),
                       !.isr = OR(@, tx_ists)]
        ELSE d

\* faulty variant of command_rx: the enable bit is looked at first
command_rx_enable_first(d, cmd, port_no) ==
    LET rx_ists == IF port_no = PORT_0 THEN ISTS_RAI ELSE ISTS_RBI
    IN  IF Has(cmd, CMD_ERX)
        THEN [d EXCEPT !.ports[port_no] = enable_rx(@)]
        ELSE IF Has(cmd, CMD_DRX)
        THEN [d EXCEPT !.ports[port_no] = disable_rx(@),
                       !.isr = Clear(@, rx_ists),
                       !.ivec = Clear(@, IF port_no = PORT_0
                                         THEN RX_INT ELSE KEYBOARD_INT)]
        ELSE d

command_rx(d, cmd, port_no) ==
    LET rx_ists == IF port_no = PORT_0 THEN ISTS_RAI ELSE ISTS_RBI
    IN  IF Has(cmd, CMD_DRX)
        THEN [d EXCEPT !.ports[port_no] = disable_rx(@),
                       !.isr = Clear(Clear(@, rx_ists),
                                     IF port_no = PORT_0 THEN ISTS_RAI ELSE ISTS_RBI),
                       !.ivec = Clear(@, IF port_no = PORT_0
                                         THEN RX_INT ELSE KEYBOARD_INT)]
        ELSE IF Has(cmd, CMD_ERX)
        THEN [d EXCEPT !.ports[port_no] = enable_rx(@)]
        ELSE d

\* the auxiliary command in bits 6:4
command_extra(d, cmd, port_no) ==
    LET dbk_ists == IF port_no = PORT_0 THEN ISTS_DBA ELSE ISTS_DBB
        port == d.ports[port_no]
        sel == (cmd \div 16) % 8
    IN  CASE sel = CR_RST_MR -> [d EXCEPT !.ports[port_no].mode_ptr = 0]
          [] sel = CR_RST_RX ->
               [d EXCEPT !.ports[port_no] =
                   [@ EXCEPT !.stat = Clear(@, STS_RXR),
                             !.conf = Clear(@, CNF_ERX),
                             !.rx_fifo = <<>>,
                             !.rx_shift_reg = None]]
          [] sel = CR_RST_TX ->
               [d EXCEPT !.ports[port_no] =
                   [@ EXCEPT !.stat = Clear(@, OR(STS_TXR, STS_TXE)),
                             !.conf = Clear(@, CNF_ETX),
                             !.tx_holding_reg = None,
                             !.tx_shift_reg = None]]
          [] sel = CR_RST_ERR ->
               [d EXCEPT !.ports[port_no].stat =
                   Clear(@, OR(OR(STS_RXB, STS_FER), OR(STS_PER, STS_OER)))]
          [] sel = CR_RST_BRK -> [d EXCEPT !.isr = Clear(@, dbk_ists)]
          [] sel = CR_START_BRK ->
               IF loopback(port)
               THEN [d EXCEPT !.ports[port_no].stat = OR(@, OR(STS_RXB, STS_PER)),
                              !.isr = OR(@, dbk_ists)]
               ELSE d
          [] sel = CR_STOP_BRK ->
               IF loopback(port) THEN [d EXCEPT !.isr = OR(@, dbk_ists)] ELSE d
          [] OTHER -> d

handle_command(d, cmd, port_no) ==
    command_extra(command_rx(command_tx(d, cmd, port_no), cmd, port_no),
                  cmd, port_no)

\* the registers read_byte handles
ReadRegs == {MR12A, CSRA, RHRA, IPCR_ACR, ISR_MASK, MR12B, CSRB, RHRB, IP_OPCR}

\* faulty variant of read_byte: an IPCR read leaves the ISR bit standing
read_byte_keeps_change(d, reg) ==
    CASE reg = MR12A -> [d EXCEPT !.ports[PORT_0].mode_ptr = (@ + 1) % 2]
      [] reg = RHRA ->
           [d EXCEPT !.isr = Clear(@, ISTS_RAI),
                     !.ivec = Clear(@, RX_INT),
                     !.ports[PORT_0] = rx_read_char(@)]
      [] reg = IPCR_ACR ->
           [d EXCEPT !.ipcr = Clear(@, 15),
                     !.ivec = 0]
      [] reg = MR12B -> [d EXCEPT !.ports[PORT_1].mode_ptr = (@ + 1) % 2]
      [] reg = RHRB ->
           [d EXCEPT !.isr = Clear(@, ISTS_RAI),
                     !.ivec = Clear(@, KEYBOARD_INT),
                     !.ports[PORT_1] = rx_read_char(@)]
      [] OTHER -> d

\* the state after read_byte at START_ADDR + reg
read_byte(d, reg) ==
    CASE reg = MR12A -> [d EXCEPT !.ports[PORT_0].mode_ptr = (@ + 1) % 2]
      [] reg = RHRA ->
           [d EXCEPT !.isr = Clear(@, ISTS_RAI),
                     !.ivec = Clear(@, RX_INT),
                     !.ports[PORT_0] = rx_read_char(@)]
      [] reg = IPCR_ACR ->
           [d EXCEPT !.ipcr = Clear(@, 15),
                     !.ivec = 0,
                     !.isr = Clear(@, ISTS_IPC)]
      [] reg = MR12B -> [d EXCEPT !.ports[PORT_1].mode_ptr = (@ + 1) % 2]
      [] reg = RHRB ->
           [d EXCEPT !.isr = Clear(@, ISTS_RAI),
                     !.ivec = Clear(@, KEYBOARD_INT),
                     !.ports[PORT_1] = rx_read_char(@)]
      [] OTHER -> d

\* the byte read_byte returns (None for Err(NoDevice))
read_byte_val(d, reg) ==
    CASE reg = MR12A -> d.ports[PORT_0].mode[d.ports[PORT_0].mode_ptr + 1]
      [] reg = CSRA -> d.ports[PORT_0].stat
      [] reg = RHRA ->
           LET c == rx_read_val(d.ports[PORT_0]) IN IF IsSome(c) THEN c ELSE 0
      [] reg = IPCR_ACR -> d.ipcr
      [] reg = ISR_MASK -> d.isr
      [] reg = MR12B -> d.ports[PORT_1].mode[d.ports[PORT_1].mode_ptr + 1]
      [] reg = CSRB -> d.ports[PORT_1].stat
      [] reg = RHRB ->
           LET c == rx_read_val(d.ports[PORT_1]) IN IF IsSome(c) THEN c ELSE 0
      [] reg = IP_OPCR -> d.inprt
      [] OTHER -> None

write_mode(port, val) ==
    [port EXCEPT !.mode[port.mode_ptr + 1] = val,
                 !.mode_ptr = (@ + 1) % 2]

write_thr(port, val) ==
    [port EXCEPT !.tx_holding_reg = val,
                 !.stat = Clear(@, OR(STS_TXR, STS_TXE))]

\* the state after write_byte at START_ADDR + reg
write_byte(d, reg, val) ==
    CASE reg = MR12A -> [d EXCEPT !.ports[PORT_0] = write_mode(@, val)]
      [] reg = CSRA -> [d EXCEPT !.ports[PORT_0].char_delay = delay_rate(val, d.acr)]
      [] reg = CRA -> handle_command(d, val, PORT_0)
      [] reg = THRA ->
           [d EXCEPT !.ports[PORT_0] = write_thr(@, val),
                     !.isr = Clear(@, ISTS_TAI)]
      [] reg = IPCR_ACR -> [d EXCEPT !.acr = val]
      [] reg = ISR_MASK -> [d EXCEPT !.imr = val]
      [] reg = MR12B -> [d EXCEPT !.ports[PORT_1] = write_mode(@, val)]
      [] reg = CSRB -> [d EXCEPT !.ports[PORT_1].char_delay = delay_rate(val, d.acr)]
      [] reg = CRB -> handle_command(d, val, PORT_1)
      [] reg = THRB ->
           [d EXCEPT !.ports[PORT_1] = write_thr(@, val),
                     !.isr = Clear(@, ISTS_TBI)]
      [] reg = OPBITS_SET -> [d EXCEPT !.outprt = OR(@, val)]
      [] reg = OPBITS_RESET -> [d EXCEPT !.outprt = Clear(@, val)]
      [] OTHER -> d

\* time passes: every stored Instant comes dt nanoseconds closer
Max(a, b) == IF a > b THEN a ELSE b

elapse(d, dt) ==
    [d EXCEPT !.next_vblank = Max(@ - dt, -1),
              !.ports = [p \in Ports |->
                  [d.ports[p] EXCEPT !.next_tx_service = Max(@ - dt, 0),
                                     !.next_rx_service = Max(@ - dt, 0)]]]

(***************************************************************************)
(* Which step of the transmitter and of the receiver a call of service     *)
(* takes for a port.                                                       *)
(***************************************************************************)
\* tx_service finds a character in the shift register and its time has come
tx_delivers(port) == IsSome(port.tx_shift_reg) /\ port.next_tx_service = 0

\* service hands a character to rx_char: from the host queue, or looped back
receives(port) ==
    \/ rx_service_needed(port) /\ ~loopback(port)
    \/ tx_delivers(port) /\ loopback(port)

RHR(p) == IF p = PORT_0 THEN RHRA ELSE RHRB
THR(p) == IF p = PORT_0 THEN THRA ELSE THRB
CR(p) == IF p = PORT_0 THEN CRA ELSE CRB

(***************************************************************************)
(* Results.  A call returns Ok(v) or Err(kind); a call that panics (an     *)
(* index out of bounds, unimplemented!(), unwrap() of an Err) is written   *)
(* as the kind "panic": it unwinds through every caller.                   *)
(***************************************************************************)
Ok(v) == [ok |-> TRUE, v |-> v, err |-> "none"]

Err(kind) == [ok |-> FALSE, v |-> 0, err |-> kind]

(***************************************************************************)
(* Mem (src/mem.rs).  The byte vector `ram` (vec![0; len]) is kept as the  *)
(* function from the offsets that hold a non-zero byte to that byte.       *)
(***************************************************************************)
NoBytes == [o \in {} |-> 0]

\* self.ram[offset], for an offset below len
ram_at(ram, offset) == IF offset \in DOMAIN ram THEN ram[offset] ELSE 0

\* self.ram[offset] = val
ram_put(ram, offset, val) ==
    IF val = 0
    THEN [o \in DOMAIN ram \ {offset} |-> ram[o]]
    ELSE [o \in DOMAIN ram \cup {offset} |-> IF o = offset THEN val ELSE ram[o]]

NewMem(start_address, len, is_read_only) ==
    [start_address |-> start_address, len |-> len, ram |-> NoBytes,
     is_read_only |-> is_read_only]

\* address.wrapping_sub(start_address) >= len, in usize
out_of_range(m, address) ==
    address < m.start_address \/ address - m.start_address >= m.len

mem_read_byte(m, address) ==
    IF out_of_range(m, address)
    THEN Err("Range")
    ELSE Ok(ram_at(m.ram, address - m.start_address))

mem_read_half(m, address) ==
    LET offset == address - m.start_address
    IN  IF out_of_range(m, address) THEN Err("Range")
        ELSE IF offset + 1 >= m.len THEN Err("panic")
        ELSE Ok(ram_at(m.ram, offset) + 256 * ram_at(m.ram, offset + 1))

mem_read_word(m, address) ==
    LET offset == address - m.start_address
    IN  IF out_of_range(m, address) THEN Err("Range")
        ELSE IF offset + 3 >= m.len THEN Err("panic")
        ELSE Ok(ram_at(m.ram, offset)
                + 256 * ram_at(m.ram, offset + 1)
                + 65536 * ram_at(m.ram, offset + 2)
                + 16777216 * ram_at(m.ram, offset + 3))

\* the bytes of val, least significant first
byte_of(val, i) == (val \div (256 ^ i)) % 256

\* the first n bytes of val stored from offset on, one after the other,
\* until an index is out of bounds
RECURSIVE ram_store(_, _, _, _, _, _)
ram_store(ram, len, offset, val, i, n) ==
    IF i = n \/ offset + i >= len
    THEN ram
    ELSE ram_store(ram_put(ram, offset + i, byte_of(val, i)), len, offset, val,
                   i + 1, n)

\* a write that does not look at is_read_only
mem_write_unguarded(m, address, val, n) ==
    LET offset == address - m.start_address
    IN  IF out_of_range(m, address) THEN [mem |-> m, res |-> Err("Range")]
        ELSE [mem |-> [m EXCEPT !.ram = ram_store(@, m.len, offset, val, 0, n)],
              res |-> IF offset + n - 1 >= m.len THEN Err("panic") ELSE Ok(0)]

\* write_byte, write_half, write_word: n is 1, 2, 4
mem_write(m, address, val, n) ==
    LET offset == address - m.start_address
    IN  IF m.is_read_only THEN [mem |-> m, res |-> Err("Write")]
        ELSE IF out_of_range(m, address) THEN [mem |-> m, res |-> Err("Range")]
        ELSE [mem |-> [m EXCEPT !.ram = ram_store(@, m.len, offset, val, 0, n)],
              res |-> IF offset + n - 1 >= m.len THEN Err("panic") ELSE Ok(0)]

RECURSIVE ram_load(_, _, _)
ram_load(ram, offset, program) ==
    IF program = <<>>
    THEN ram
    ELSE ram_load(ram_put(ram, offset, Head(program)), offset + 1, Tail(program))

\* below the start address the offset wraps around (wrapping_sub), and so
\* may offset + len(program) (wrapping_add): the range test then passes and
\* the first store is out of bounds
mem_load(m, address, program) ==
    IF address < m.start_address
    THEN LET k == m.start_address - address
         IN  IF Len(program) < k \/ Len(program) - k > m.len
             THEN [mem |-> m, res |-> Err("Range")]
             ELSE [mem |-> m, res |-> Err("panic")]
    ELSE IF (address - m.start_address) + Len(program) > m.len
    THEN [mem |-> m, res |-> Err("Range")]
    ELSE [mem |-> [m EXCEPT !.ram = ram_load(@, address - m.start_address, program)],
          res |-> Ok(0)]

(***************************************************************************)
(* Mouse (src/mouse.rs).                                                   *)
(***************************************************************************)
NewMouse == [x |-> 0, y |-> 0]

mouse_read_half(mouse, address) ==
    CASE address - 4194304 = 0 -> Ok(mouse.y)
      [] address - 4194304 = 2 -> Ok(mouse.x)
      [] OTHER -> Err("NoDevice")

(***************************************************************************)
(* Bus (src/bus.rs).  A device is named by the field of Bus that holds it. *)
(***************************************************************************)
NewBus(mem_size) ==
    [rom |-> NewMem(0, 131072, TRUE),
     duart |-> NewDuart,
     mouse |-> NewMouse,
     vid |-> NewMem(5242880, 2, FALSE),
     bbram |-> NewMem(6291456, 8192, FALSE),
     ram |-> NewMem(7340032, mem_size, FALSE),
     video_ram_dirty |-> FALSE]

MemDevices == {"rom", "vid", "bbram", "ram"}

get_device(address) ==
    CASE address >= 0 /\ address < 131072 -> "rom"
      [] address >= 2097152 /\ address < 2097216 -> "duart"
      [] address >= 4194304 /\ address < 4194308 -> "mouse"
      [] address >= 5242880 /\ address < 5242882 -> "vid"
      [] address >= 6291456 /\ address < 6299648 -> "bbram"
      [] address >= 7340032 /\ address < 8388608 -> "ram"
      [] OTHER -> "none"

video_ram_start(b) == (256 * ram_at(b.vid.ram, 0) + ram_at(b.vid.ram, 1)) * 4

\* the window of a video-start register of 0, whatever the register holds
is_video_ram_from_zero(b, address) ==
    /\ address >= 7340032
    /\ address < 7340032 + 102400

is_video_ram(b, address) ==
    /\ address >= 7340032
    /\ address < 8388608
    /\ address - 7340032 >= video_ram_start(b)
    /\ address - 7340032 < video_ram_start(b) + 102400

\* (address - START_ADDR) as u8
duart_reg(address) == (address - 2097152) % 256

\* Device::read_byte of the device dev: the bus afterwards and the result
dev_read_byte(b, dev, address) ==
    CASE dev \in MemDevices -> [bus |-> b, res |-> mem_read_byte(b[dev], address)]
      [] dev = "duart" ->
           LET v == read_byte_val(b.duart, duart_reg(address))
           IN  [bus |-> [b EXCEPT !.duart = read_byte(@, duart_reg(address))],
                res |-> IF IsSome(v) THEN Ok(v) ELSE Err("NoDevice")]
      [] OTHER -> [bus |-> b, res |-> Err("panic")]

dev_read_half(b, dev, address) ==
    CASE dev \in MemDevices -> [bus |-> b, res |-> mem_read_half(b[dev], address)]
      [] dev = "duart" -> dev_read_byte(b, dev, address + 2)
      [] OTHER -> [bus |-> b, res |-> mouse_read_half(b.mouse, address)]

dev_read_word(b, dev, address) ==
    CASE dev \in MemDevices -> [bus |-> b, res |-> mem_read_word(b[dev], address)]
      [] dev = "duart" -> dev_read_byte(b, dev, address + 3)
      [] OTHER -> [bus |-> b, res |-> Err("panic")]

\* Device::write_byte, write_half, write_word (n = 1, 2, 4) of the device dev
dev_write(b, dev, address, val, n) ==
    CASE dev \in MemDevices ->
           LET w == mem_write(b[dev], address, val, n)
           IN  [bus |-> [b EXCEPT ![dev] = w.mem], res |-> w.res]
      [] dev = "duart" ->
           [bus |-> [b EXCEPT !.duart =
                       write_byte(@, duart_reg(address + (n - 1)), val % 256)],
            res |-> Ok(0)]
      [] OTHER -> [bus |-> b, res |-> Err("panic")]

bus_read_byte(b, address) ==
    IF get_device(address) = "none"
    THEN [bus |-> b, res |-> Err("NoDevice")]
    ELSE dev_read_byte(b, get_device(address), address)

\* a half-word read without the alignment test
bus_read_half_unaligned(b, address) ==
    IF get_device(address) = "none" THEN [bus |-> b, res |-> Err("NoDevice")]
    ELSE dev_read_half(b, get_device(address), address)

bus_read_half(b, address) ==
    IF address % 2 # 0 THEN [bus |-> b, res |-> Err("Alignment")]
    ELSE IF get_device(address) = "none" THEN [bus |-> b, res |-> Err("NoDevice")]
    ELSE dev_read_half(b, get_device(address), address)

bus_read_word(b, address) ==
    IF address % 4 # 0 THEN [bus |-> b, res |-> Err("Alignment")]
    ELSE IF get_device(address) = "none" THEN [bus |-> b, res |-> Err("NoDevice")]
    ELSE dev_read_word(b, get_device(address), address)

\* the bytes put together most significant first
RECURSIVE read_op_bytes_msb_first(_, _, _, _, _, _)
read_op_bytes_msb_first(b, dev, address, i, n, acc) ==
    IF i = n
    THEN [bus |-> b, res |-> Ok(acc)]
    ELSE LET r == dev_read_byte(b, dev, address + i)
         IN  IF r.res.ok
             THEN read_op_bytes_msb_first(r.bus, dev, address, i + 1, n,
                                          acc * 256 + r.res.v)
             ELSE r

\* the bytes at address .. address + n - 1 of the device of address, read
\* one after the other and put together least significant first
RECURSIVE read_op_bytes(_, _, _, _, _, _)
read_op_bytes(b, dev, address, i, n, acc) ==
    IF i = n
    THEN [bus |-> b, res |-> Ok(acc)]
    ELSE LET r == dev_read_byte(b, dev, address + i)
         IN  IF r.res.ok
             THEN read_op_bytes(r.bus, dev, address, i + 1, n,
                                acc + r.res.v * (256 ^ i))
             ELSE r

bus_read_op_half(b, address) ==
    IF get_device(address) = "none"
    THEN [bus |-> b, res |-> Err("NoDevice")]
    ELSE read_op_bytes(b, get_device(address), address, 0, 2, 0)

bus_read_op_word(b, address) ==
    IF get_device(address) = "none"
    THEN [bus |-> b, res |-> Err("NoDevice")]
    ELSE read_op_bytes(b, get_device(address), address, 0, 4, 0)

\* write_byte, write_half, write_word after the alignment test
bus_write(b, address, val, n) ==
    LET b1 == IF is_video_ram(b, address)
              THEN [b EXCEPT !.video_ram_dirty = TRUE] ELSE b
    IN  IF get_device(address) = "none"
        THEN [bus |-> b1, res |-> Err("NoDevice")]
        ELSE dev_write(b1, get_device(address), address, val, n)

bus_write_byte(b, address, val) == bus_write(b, address, val, 1)

bus_write_half(b, address, val) ==
    IF address % 2 # 0 THEN [bus |-> b, res |-> Err("Alignment")]
    ELSE bus_write(b, address, val, 2)

bus_write_word(b, address, val) ==
    IF address % 4 # 0 THEN [bus |-> b, res |-> Err("Alignment")]
    ELSE bus_write(b, address, val, 4)

bus_load(b, address, data) ==
    IF get_device(address) \in MemDevices
    THEN LET w == mem_load(b[get_device(address)], address, data)
         IN  [bus |-> [b EXCEPT ![get_device(address)] = w.mem], res |-> w.res]
    ELSE IF get_device(address) = "none"
    THEN [bus |-> b, res |-> Err("NoDevice")]
    ELSE [bus |-> b, res |-> Err("panic")]

\* video_ram(): the dirty flag is cleared
bus_video_ram(b) == [b EXCEPT !.video_ram_dirty = FALSE]

(***************************************************************************)
(* Cpu (src/cpu.rs).  Registers and memory words are u32 values; the       *)
(* words of the PSW, of the stacks and of the process control blocks are   *)
(* below 2^31, the integers TLC has.                                       *)
(***************************************************************************)
F_ET == 3
F_TM == 4
F_ISC == 120
F_I == 128
F_R == 256
F_PM == 1536
F_CM == 6144
F_IPL == 122880

O_ET == 0
O_TM == 2
O_ISC == 3

R_FP == 9
R_AP == 10
R_PSW == 11
R_SP == 12
R_PCBP == 13
R_ISP == 14
R_PC == 15

IPL_TABLE == [i \in 0 .. 63 |-> IF i = 0 THEN 0 ELSE IF i < 8 THEN 14 ELSE 15]

NOP == 112
HALT == 0
MOVBLW == 12313
STREND == 12319
CALLPS == 12460
RETPS == 12488

\* u32 &, | and & !
AND32(a, b) ==
    AND(byte_of(a, 0), byte_of(b, 0))
    + 256 * AND(byte_of(a, 1), byte_of(b, 1))
    + 65536 * AND(byte_of(a, 2), byte_of(b, 2))
    + 16777216 * AND(byte_of(a, 3), byte_of(b, 3))

OR32(a, b) == a + b - AND32(a, b)

Clear32(v, m) == v - AND32(v, m)

\* Option<Data>::None
NoType == "none"

\* Operand::new(0, AddrMode::None, Data::None, None, None, 0)
NoOperand ==
    [size |-> 0, mode |-> "None", data_type |-> "None", expanded_type |-> NoType,
     register |-> None, embedded |-> 0, data |-> 0]

NewCpu ==
    [r |-> [i \in 0 .. 15 |-> 0],
     error_context |-> "None",
     steps |-> 0,
     ir |-> [opcode |-> 0, data_type |-> "None", bytes |-> 0,
             operands |-> [i \in 0 .. 3 |-> NoOperand]]]

(***************************************************************************)
(* The Cpu and the Bus it is given, on their way through a call:           *)
(*   err    "none", or the error a call has returned with `?`, after which *)
(*          the rest of the function is not executed; "panic" is a panic   *)
(*          (unwrap of an Err, unimplemented!)                             *)
(*   trace  what dispatch has done so far: service, interrupt, fetch       *)
(***************************************************************************)
Machine(c, b) == [cpu |-> c, bus |-> b, err |-> "none", trace |-> <<>>]

ok(m) == m.err = "none"

R(m, i) == m.cpu.r[i]

set_reg(m, i, v) == IF ok(m) THEN [m EXCEPT !.cpu.r[i] = v] ELSE m

\* call(m, c) is the call c of a function of the Bus or of the Cpu on the
\* machine m; it is defined below, after these functions
RECURSIVE call(_, _)

\* bus.read_byte(address, ..): the bus afterwards and the Result
rd_byte(m, address) == call(m, [op |-> "read_byte", address |-> address])

\* bus.read_word(address, ..): the bus afterwards and the Result
rd(m, address) ==
    IF ok(m)
    THEN call(m, [op |-> "read_word", address |-> address])
    ELSE [bus |-> m.bus, res |-> Err(m.err)]

\* the machine after the bus call that ended with x, `?` applied
after(m, x) == IF ok(m) THEN [m EXCEPT !.bus = x.bus, !.err = x.res.err] ELSE m

\* self.r[i] = v?, where x is the bus call that read v
put(m, i, x) == set_reg(after(m, x), i, x.res.v)

\* self.r[i] = bus.read_word(address, ..)?
load_reg(m, i, address) == put(m, i, rd(m, address))

\* self.r[i] = bus.read_word(self.r[a] + off, ..)?
load_rel(m, i, a, off) == load_reg(m, i, R(m, a) + off)

\* self.r[i] = self.r[a] + off
reg_from(m, i, a, off) == set_reg(m, i, R(m, a) + off)

\* self.r[i] += d
add_reg(m, i, d) == set_reg(m, i, R(m, i) + d)

\* self.r[i] &= !mask
clear_reg(m, i, mask) == set_reg(m, i, Clear32(R(m, i), mask))

\* self.r[i] |= v? & mask, where x is the bus call that read v
or_bits(m, i, x, mask) == set_reg(after(m, x), i, OR32(R(m, i), AND32(x.res.v, mask)))

\* self.r[i] |= bus.read_word(address, ..)? & mask
or_word(m, i, address, mask) == or_bits(m, i, rd(m, address), mask)

\* let v = ..?; self.r[i] &= !mask; self.r[i] |= v & mask
take_bits(m, i, x, mask) ==
    set_reg(after(m, x), i, OR32(Clear32(R(m, i), mask), AND32(x.res.v, mask)))

\* let v = bus.read_word(address, ..)?; self.r[i] &= !mask; self.r[i] |= v & mask
take_word(m, i, address, mask) == take_bits(m, i, rd(m, address), mask)

\* bus.write_word(address, val)?
wr(m, address, val) ==
    IF ok(m)
    THEN after(m, call(m, [op |-> "write_word", address |-> address, val |-> val]))
    ELSE m

\* bus.write_word(self.r[a] + off, self.r[i])?
store_reg(m, a, off, i) == wr(m, R(m, a) + off, R(m, i))

\* .unwrap()
unwrap(m) == IF ok(m) THEN m ELSE [m EXCEPT !.err = "panic"]

log(m, e, a) ==
    IF ok(m) THEN [m EXCEPT !.trace = Append(@, [e |-> e, a |-> a])] ELSE m

\* the PCB offsets and registers of the register save area, in the order
\* context_switch_1 writes them
SaveArea ==
    <<<<24, R_FP>>, <<28, 0>>, <<32, 1>>, <<36, 2>>, <<40, 3>>, <<44, 4>>,
      <<48, 5>>, <<52, 6>>, <<56, 7>>, <<60, 8>>, <<20, R_AP>>>>

RECURSIVE save_regs(_, _, _)
save_regs(m, pcbp, k) ==
    IF k > Len(SaveArea) THEN m
    ELSE save_regs(wr(m, pcbp + SaveArea[k][1], R(m, SaveArea[k][2])), pcbp, k + 1)

\* no register is read back
restore_regs_none(m, pcbp, k) == m

RECURSIVE restore_regs(_, _, _)
restore_regs(m, pcbp, k) ==
    IF k > Len(SaveArea) THEN m
    ELSE restore_regs(load_reg(m, SaveArea[k][2], pcbp + SaveArea[k][1]), pcbp, k + 1)

\* context_switch_1: if self.r[R_PSW] & F_R != 0 { .. }
cs1_save(m) ==
    IF AND32(R(m, R_PSW), F_R) # 0
    THEN reg_from(save_regs(m, R(m, R_PCBP), 1), R_FP, R_PCBP, 52)
    ELSE m

context_switch_1(m, new_pcbp) ==
    LET m1 == store_reg(m, R_PCBP, 4, R_PC)
        m2 == clear_reg(m1, R_PSW, F_R)
        m3 == or_word(m2, R_PSW, new_pcbp, F_R)
        m4 == store_reg(m3, R_PCBP, 0, R_PSW)
        m5 == store_reg(m4, R_PCBP, 8, R_SP)
    IN  cs1_save(m5)

\* context_switch_2: if self.r[R_PSW] & F_I != 0 { .. }
cs2_initial(m) ==
    IF AND32(R(m, R_PSW), F_I) # 0
    THEN add_reg(clear_reg(m, R_PSW, F_I), R_PCBP, 12)
    ELSE m

context_switch_2(m, new_pcbp) ==
    LET m1 == set_reg(m, R_PCBP, new_pcbp)
        m2 == load_rel(m1, R_PSW, R_PCBP, 0)
        m3 == clear_reg(m2, R_PSW, F_TM)
        m4 == load_rel(m3, R_PC, R_PCBP, 4)
        m5 == load_rel(m4, R_SP, R_PCBP, 8)
    IN  cs2_initial(m5)

\* bus.write_word(self.r[1], a)?, where x is the bus call that read a
copy_word(m, x) == wr(after(m, x), R(m, 1), x.res.v)

\* one pass of the MOVBLW loop body
movblw_iter(m) ==
    LET m1 == copy_word(m, rd(m, R(m, 0)))
        m2 == add_reg(m1, 2, -1)
        m3 == add_reg(m2, 0, 4)
    IN  add_reg(m3, 1, 4)

\* while self.r[2] != 0 { .. }
RECURSIVE movblw(_)
movblw(m) == IF ok(m) /\ R(m, 2) # 0 THEN movblw(movblw_iter(m)) ELSE m

\* the head of one pass of the outer loop of context_switch_3
cs3_head(m) == add_reg(load_rel(m, 1, 0, 0), 0, 4)

\* the tail of one pass of the outer loop of context_switch_3
cs3_tail(m) == add_reg(load_rel(m, 2, 0, 0), 0, 4)

RECURSIVE cs3_blocks(_)
cs3_blocks(m) ==
    IF ok(m) /\ R(m, 2) # 0 THEN cs3_blocks(cs3_tail(movblw(cs3_head(m)))) ELSE m

\* context_switch_3 up to its outer loop
cs3_enter(m) == cs3_tail(reg_from(m, 0, R_PCBP, 64))

context_switch_3(m) ==
    IF ok(m) /\ AND32(R(m, R_PSW), F_R) # 0
    THEN add_reg(cs3_blocks(cs3_enter(m)), 0, 4)
    ELSE m

irq_push(m, val) == add_reg(wr(m, R(m, R_ISP), val), R_ISP, 4)

\* the machine after the bus call x and the word it read
popped(m, x) == [m |-> after(m, x), v |-> x.res.v]

\* irq_pop: the machine afterwards and the word popped
irq_pop(m) == popped(add_reg(m, R_ISP, -4), rd(m, R(m, R_ISP) - 4))

\* PSW with ISC, TM and ET replaced by the bits v
set_isc_tm_et(m, v) ==
    set_reg(m, R_PSW, OR32(Clear32(R(m, R_PSW), F_ISC + F_TM + F_ET), v))

\* on_interrupt after new_pcbp has been read
interrupt_switch(m, new_pcbp) ==
    LET m2 == unwrap(irq_push(m, R(m, R_PCBP)))
        m3 == set_isc_tm_et(m2, 1)
        m4 == unwrap(context_switch_1(m3, new_pcbp))
        m5 == unwrap(context_switch_2(m4, new_pcbp))
        m6 == set_isc_tm_et(m5, 7 * (2 ^ O_ISC) + 3)
    IN  unwrap(context_switch_3(m6))

\* on_interrupt, where x is the bus call that read new_pcbp
interrupt_to(m, vector, x) ==
    interrupt_switch(unwrap(after(log(m, "interrupt", vector), x)), x.res.v)

on_interrupt(m, vector) == interrupt_to(m, vector, rd(m, 140 + 4 * vector))

(***************************************************************************)
(* Operands (src/cpu.rs).  A u32 below 2^31 is kept as itself and a u32 v  *)
(* of 2^31 or more as v - 2^32, the integer with the same 32 bits; `as u8` *)
(* and `as u16` are then % 256 and % 65536.                                *)
(***************************************************************************)
F_C == 262144
F_V == 524288
F_Z == 1048576
F_N == 2097152

\* the opcodes of BYTE_MNEMONICS that the model executes besides NOP and HALT
CMPW == 60
CMPH == 62
CMPB == 63
BGEH == 66
BGEB == 67
BGH == 70
BGB == 71
BLH == 74
BLB == 75
BLEH == 78
BLEB == 79
BGEUH == 82
BGEUB == 83
BGUH == 86
BGUB == 87
BLUH == 90
BLUB == 91
BLEUH == 94
BLEUB == 95
BVCH == 98
BVCB == 99
BNEH_D == 102
BNEB_D == 103
BVSH == 106
BVSB == 107
BEH_D == 110
BEB_D == 111
BNEH == 118
BNEB == 119
BRH == 122
BRB == 123
BEH == 126
BEB == 127
MOVW == 132
MOVH == 134
MOVB == 135
ADDW2 == 156
ADDH2 == 158
ADDB2 == 159
ADDW3 == 220
ADDH3 == 222
ADDB3 == 223

\* the branches that sign-extend a half-word displacement, and a byte one
HalfBranches ==
    {BEH, BEH_D, BGH, BGEH, BGEUH, BGUH, BLH, BLEH, BLEUH, BLUH, BNEH, BNEH_D,
     BRH, BVCH, BVSH}

ByteBranches ==
    {BEB, BEB_D, BGB, BGEB, BGEUB, BGUB, BLB, BLEB, BLEUB, BLUB, BNEB, BNEB_D,
     BRB, BVCB, BVSB}

\* Operand::data_type()
data_type(op) ==
    IF op.expanded_type # NoType THEN op.expanded_type ELSE op.data_type

\* the rows of BYTE_MNEMONICS and HALFWORD_MNEMONICS of the opcodes of the
\* model: dtype and ops
Mnemonic(opcode) ==
    CASE opcode \in HalfBranches -> [dtype |-> "Half", ops |-> <<"Lit", "None", "None", "None">>]
      [] opcode \in ByteBranches -> [dtype |-> "Byte", ops |-> <<"Lit", "None", "None", "None">>]
      [] opcode \in {MOVW, ADDW2} -> [dtype |-> "Word", ops |-> <<"Src", "Dest", "None", "None">>]
      [] opcode \in {MOVH, ADDH2} -> [dtype |-> "Half", ops |-> <<"Src", "Dest", "None", "None">>]
      [] opcode \in {MOVB, ADDB2} -> [dtype |-> "Byte", ops |-> <<"Src", "Dest", "None", "None">>]
      [] opcode = ADDW3 -> [dtype |-> "Word", ops |-> <<"Src", "Src", "Dest", "None">>]
      [] opcode = ADDH3 -> [dtype |-> "Half", ops |-> <<"Src", "Src", "Dest", "None">>]
      [] opcode = ADDB3 -> [dtype |-> "Byte", ops |-> <<"Src", "Src", "Dest", "None">>]
      [] opcode = CMPW -> [dtype |-> "Word", ops |-> <<"Src", "Src", "None", "None">>]
      [] opcode = CMPH -> [dtype |-> "Half", ops |-> <<"Src", "Src", "None", "None">>]
      [] opcode = CMPB -> [dtype |-> "Byte", ops |-> <<"Src", "Src", "None", "None">>]
      [] OTHER -> [dtype |-> "None", ops |-> <<"None", "None", "None", "None">>]

\* the half-word is zero-extended
sign_extend_halfword_zero(data) == data

sign_extend_halfword(data) == IF data >= 32768 THEN data - 65536 ELSE data

sign_extend_byte(data) == IF data >= 128 THEN data - 256 ELSE data

\* u64::from(a) + u64::from(b): the bits of the sum from bit 16 on, and its
\* low 16 bits
wide_add(a, b) ==
    [hi |-> ((a \div 65536) % 65536) + ((b \div 65536) % 65536)
            + (((a % 65536) + (b % 65536)) \div 65536),
     lo |-> ((a % 65536) + (b % 65536)) % 65536]

\* result as u32
low32(result) ==
    (IF result.hi % 65536 >= 32768
     THEN ((result.hi % 65536) - 65536) * 65536
     ELSE (result.hi % 65536) * 65536)
    + result.lo

\* ((val as i32).wrapping_add(offset as i32)) as u32
add_offset(val, offset) == low32(wide_add(val, offset))

\* the bus call c, unless the machine has failed already
bus_do(m, c) == IF ok(m) THEN call(m, c) ELSE [bus |-> m.bus, res |-> Err(m.err)]

\* return Err(CpuError::Exception(CpuException::IllegalOpcode))
illegal(m) == IF ok(m) THEN [m EXCEPT !.err = "IllegalOpcode"] ELSE m

set_operand(m, index, size, mode, dtype, expanded_type, register, embedded) ==
    IF ok(m)
    THEN [m EXCEPT !.cpu.ir.operands[index] =
                       [@ EXCEPT !.size = size, !.mode = mode, !.data_type = dtype,
                                 !.expanded_type = expanded_type,
                                 !.register = register, !.embedded = embedded]]
    ELSE m

\* let v = bus.read..(..)?; self.set_operand(.., v), where x is the read
embed(m, index, size, mode, dtype, etype, register, x) ==
    set_operand(after(m, x), index, size, mode, dtype, etype, register, x.res.v)

decode_literal_operand(m, index, dtype, addr) ==
    CASE dtype = "Byte" ->
           embed(m, index, 1, "None", "Byte", NoType, None,
                 bus_do(m, [op |-> "read_byte", address |-> addr]))
      [] dtype = "Half" ->
           embed(m, index, 2, "None", "Half", NoType, None,
                 bus_do(m, [op |-> "read_op_half", address |-> addr]))
      [] dtype = "Word" ->
           embed(m, index, 4, "None", "Word", NoType, None,
                 bus_do(m, [op |-> "read_op_word", address |-> addr]))
      [] OTHER -> illegal(m)

\* the operand of the descriptor byte at addr - 1 that has n bytes after it:
\* they are read as one byte, as an operand half-word or as an operand word
extended(m, index, dsize, n, mode, dtype, etype, register, addr) ==
    embed(m, index, dsize + n, mode, dtype, etype, register,
          bus_do(m, [op |-> CASE n = 1 -> "read_byte"
                              [] n = 2 -> "read_op_half"
                              [] OTHER -> "read_op_word",
                     address |-> addr]))

\* the data type an expanded-type descriptor 0xEr gives its operand
ExpandedType ==
    (0 :> "UWord" @@ 2 :> "UHalf" @@ 3 :> "Byte" @@ 4 :> "Word" @@ 6 :> "Half"
     @@ 7 :> "SByte")

RECURSIVE decode_descriptor_operand(_, _, _, _, _, _)

\* decode_descriptor_operand after the read of the descriptor byte: the
\* match on its mode m and register r; the negative literal has the size 1
\* whatever dsize is
described(m, index, dtype, etype, addr, dsize, descriptor_byte, mode, r) ==
    CASE mode \in 0 .. 3 ->
           set_operand(m, index, dsize, "PositiveLiteral", dtype, etype, None,
                       descriptor_byte)
      [] mode = 4 /\ r = 15 ->
           extended(m, index, dsize, 4, "WordImmediate", dtype, etype, None, addr + 1)
      [] mode = 4 /\ r # 15 ->
           set_operand(m, index, dsize, "Register", dtype, etype, r, 0)
      [] mode = 5 /\ r = 15 ->
           extended(m, index, dsize, 2, "HalfwordImmediate", dtype, etype, None, addr + 1)
      [] mode = 5 /\ r = 11 -> illegal(m)
      [] mode = 5 /\ r \notin {11, 15} ->
           set_operand(m, index, dsize, "RegisterDeferred", dtype, etype, r, 0)
      [] mode = 6 /\ r = 15 ->
           extended(m, index, dsize, 1, "ByteImmediate", dtype, etype, None, addr + 1)
      [] mode = 6 /\ r # 15 ->
           set_operand(m, index, dsize, "FpShortOffset", dtype, etype, R_FP, r)
      [] mode = 7 /\ r = 15 ->
           extended(m, index, dsize, 4, "Absolute", dtype, etype, None, addr + 1)
      [] mode = 7 /\ r # 15 ->
           set_operand(m, index, dsize, "ApShortOffset", dtype, etype, R_AP, r)
      [] mode \in 8 .. 13 /\ r = 11 -> illegal(m)
      [] mode = 8 /\ r # 11 ->
           extended(m, index, dsize, 4, "WordDisplacement", dtype, etype, r, addr + 1)
      [] mode = 9 /\ r # 11 ->
           extended(m, index, dsize, 4, "WordDisplacementDeferred", dtype, etype, r,
                    addr + 1)
      [] mode = 10 /\ r # 11 ->
           extended(m, index, dsize, 2, "HalfwordDisplacement", dtype, etype, r,
                    addr + 1)
      [] mode = 11 /\ r # 11 ->
           extended(m, index, dsize, 2, "HalfwordDisplacementDeferred", dtype, etype,
                    r, addr + 1)
      [] mode = 12 /\ r # 11 ->
           extended(m, index, dsize, 1, "ByteDisplacement", dtype, etype, r, addr + 1)
      [] mode = 13 /\ r # 11 ->
           extended(m, index, dsize, 1, "ByteDisplacementDeferred", dtype, etype, r,
                    addr + 1)
      [] mode = 14 /\ r \in DOMAIN ExpandedType ->
           decode_descriptor_operand(m, index, dtype, ExpandedType[r], addr + 1, TRUE)
      [] mode = 14 /\ r = 15 ->
           extended(m, index, dsize, 4, "AbsoluteDeferred", dtype, etype, None, addr + 1)
      [] mode = 14 /\ r \notin DOMAIN ExpandedType \cup {15} -> illegal(m)
      [] OTHER ->
           set_operand(m, index, 1, "NegativeLiteral", dtype, etype, None,
                       descriptor_byte)

\* decode_descriptor_operand, where x is the read of the descriptor byte
descriptor_read(m, index, dtype, etype, addr, recur, x) ==
    IF x.res.ok
    THEN described(after(m, x), index, dtype, etype, addr, IF recur THEN 2 ELSE 1,
                   x.res.v, x.res.v \div 16, x.res.v % 16)
    ELSE after(m, x)

decode_descriptor_operand(m, index, dtype, etype, addr, recur) ==
    descriptor_read(m, index, dtype, etype, addr, recur,
                    bus_do(m, [op |-> "read_byte", address |-> addr]))

decode_operand(m, index, mn, ot, etype, addr) ==
    CASE ot = "Lit" -> decode_literal_operand(m, index, mn.dtype, addr)
      [] ot \in {"Src", "Dest"} ->
           decode_descriptor_operand(m, index, mn.dtype, etype, addr, FALSE)
      [] OTHER -> m

RECURSIVE decode_operands(_, _, _, _, _)

\* the loop of decode_instruction after operand index has been decoded:
\* etype = self.ir.operands[index].expanded_type; addr += size
next_operand(m, mn, index, addr) ==
    decode_operands(m, mn, index + 1, m.cpu.ir.operands[index].expanded_type,
                    addr + m.cpu.ir.operands[index].size)

\* the loop of decode_instruction from operand index on: the machine and
\* addr afterwards
decode_operands(m, mn, index, etype, addr) ==
    IF ~ok(m) \/ index = 4 THEN [m |-> m, addr |-> addr]
    ELSE IF mn.ops[index + 1] = "None" THEN [m |-> m, addr |-> addr]
    ELSE next_operand(decode_operand(m, index, mn, mn.ops[index + 1], etype, addr),
                      mn, index, addr)

\* decode_instruction after its loop, d: opcode, data type and bytes
recorded(d, mn, opcode, initial_addr) ==
    IF ok(d.m)
    THEN [d.m EXCEPT !.cpu.ir.opcode = opcode,
                     !.cpu.ir.data_type = mn.dtype,
                     !.cpu.ir.bytes = (d.addr - initial_addr) % 256]
    ELSE d.m

\* the indexes of BYTE_MNEMONICS that hold None
NoMnemonic ==
    {1, 5, 9, 10, 11, 13, 14, 15, 17, 18, 21, 22, 25, 26, 27, 29, 33, 37, 38,
     41, 45, 48, 49, 53, 57, 61, 65, 69, 73, 77, 81, 85, 89, 93, 97, 101, 105,
     109, 113, 117, 121, 125, 129, 133, 137, 141, 145, 149, 152, 153, 154, 155,
     157, 161, 162, 163, 165, 169, 173, 177, 181, 185, 189, 193, 194, 195, 197,
     201, 205, 209, 213, 214, 215, 217, 218, 219, 221, 225, 226, 227, 229, 233,
     237, 241, 245, 249, 253}

\* the opcodes of HALFWORD_MNEMONICS
HALFWORD_MNEMONICS ==
    {12297, 12301, 12307, MOVBLW, STREND, 12335, 12351, 12357, 12385, CALLPS, RETPS}

\* the instructions of the model.  An instruction outside the model ends
\* the run with the error "unmodelled".
Modelled ==
    {NOP, HALT, MOVBLW, STREND, CALLPS, RETPS, MOVW, MOVH, MOVB, ADDW2, ADDH2,
     ADDB2, ADDW3, ADDH3, ADDB3, CMPW, CMPH, CMPB}
    \cup HalfBranches \cup ByteBranches

\* decode_instruction after its reads: m is the machine after the first
\* read, b1 the byte it read and x2 the read of the second byte (a read of
\* 0 when the opcode has one byte)
decoded(m, pc, b1, x2) ==
    LET m2 == after(m, x2)
        opcode == IF b1 = 48 THEN 256 * b1 + x2.res.v ELSE b1
        found == IF b1 = 48 THEN opcode \in HALFWORD_MNEMONICS ELSE b1 \notin NoMnemonic
    IN  IF ~ok(m2) THEN m2
        ELSE IF ~found THEN [m2 EXCEPT !.err = "IllegalOpcode"]
        ELSE IF opcode \notin Modelled THEN [m2 EXCEPT !.err = "unmodelled"]
        ELSE recorded(decode_operands(m2, Mnemonic(opcode), 0, NoType,
                                      IF b1 = 48 THEN pc + 2 ELSE pc + 1),
                      Mnemonic(opcode), opcode, pc)

\* decode_instruction after the first read: the second byte is read when
\* the first is 0x30
decode_second(m, pc, b1) ==
    decoded(m, pc, b1, IF ok(m) /\ b1 = 48
                   THEN rd_byte(m, pc + 1)
                   ELSE [bus |-> m.bus, res |-> Ok(0)])

\* decode_instruction, where x1 is the read of the byte at pc
decode_first(m, pc, x1) == decode_second(after(log(m, "fetch", pc), x1), pc, x1.res.v)

decode_instruction(m) == decode_first(m, R(m, R_PC), rd_byte(m, R(m, R_PC)))

\* every level counts as Kernel
priv_level_kernel(m) == 0

\* (psw & F_CM) >> 11: 0 is Kernel
priv_level(m) == (R(m, R_PSW) \div 2048) % 4

\* one pass of the loop of STREND that leaves r0 where it is
strend_iter_stuck(m) ==
    LET x == rd_byte(m, R(m, 0))
    IN  [m |-> after(m, x), again |-> x.res.ok /\ x.res.v # 0]

\* one pass of the loop of STREND: the machine afterwards and whether the
\* loop goes on
strend_iter(m) ==
    LET x == rd_byte(m, R(m, 0))
    IN  [m |-> IF x.res.ok /\ x.res.v # 0
               THEN set_reg(after(m, x), 0, R(m, 0) + 1)
               ELSE after(m, x),
         again |-> x.res.ok /\ x.res.v # 0]

RECURSIVE strend(_)
strend(m) == IF strend_iter(m).again THEN strend(strend_iter(m).m) ELSE strend_iter(m).m

\* the Kernel arm of CALLPS up to context_switch_3
callps_switch(m) ==
    LET a  == R(m, 0)
        m1 == irq_push([m EXCEPT !.cpu.error_context = "ResetIntStack"], R(m, R_PCBP))
        m2 == add_reg(m1, R_PC, 2)
        m3 == set_isc_tm_et(m2, 2 ^ O_ET)
        m4 == context_switch_1(m3, a)
        m5 == context_switch_2(m4, a)
    IN  set_isc_tm_et(m5, 7 * (2 ^ O_ISC) + 3 * (2 ^ O_ET))

\* the Kernel arm of CALLPS after context_switch_3
callps_leave(m) == IF ok(m) THEN [m EXCEPT !.cpu.error_context = "None"] ELSE m

\* faulty variant of callps: the PCBP is pushed before the level is tested
callps_pushes_first(m) ==
    IF priv_level(m) # 0
    THEN [irq_push(m, R(m, R_PCBP)) EXCEPT !.err = "PrivilegedOpcode"]
    ELSE callps_leave(context_switch_3(callps_switch(m)))

callps(m) ==
    IF priv_level(m) # 0 THEN [m EXCEPT !.err = "PrivilegedOpcode"]
    ELSE callps_leave(context_switch_3(callps_switch(m)))

\* RETPS, Kernel arm: if self.r[R_PSW] & F_R != 0 { .. }
retps_restore(m, new_pcbp) ==
    IF ok(m) /\ AND32(R(m, R_PSW), F_R) # 0 THEN restore_regs(m, new_pcbp, 1) ELSE m

\* RETPS, Kernel arm, after irq_pop
retps_switch(m, new_pcbp) ==
    LET m1 == take_word(m, R_PSW, new_pcbp, F_R)
        m2 == context_switch_2(m1, new_pcbp)
        m3 == context_switch_3(m2)
    IN  retps_restore(m3, new_pcbp)

\* RETPS, Kernel arm, where p is what irq_pop returned
retps_popped(p) == retps_switch(p.m, p.v)

retps(m) ==
    IF priv_level(m) # 0 THEN [m EXCEPT !.err = "PrivilegedOpcode"]
    ELSE retps_popped(irq_pop(m))

\* self.ir.operands[index].data = v
set_data(m, index, v) ==
    IF ok(m) THEN [m EXCEPT !.cpu.ir.operands[index].data = v] ELSE m

\* the match of effective_address on the mode of the operand op: the bus
\* afterwards and the address, or the error
address_of(m, op) ==
    CASE op.mode = "RegisterDeferred" -> [bus |-> m.bus, res |-> Ok(R(m, op.register))]
      [] op.mode = "Absolute" -> [bus |-> m.bus, res |-> Ok(op.embedded)]
      [] op.mode = "AbsoluteDeferred" ->
           bus_do(m, [op |-> "read_word", address |-> op.embedded])
      [] op.mode = "FpShortOffset" ->
           [bus |-> m.bus,
            res |-> Ok(add_offset(R(m, R_FP), sign_extend_byte(op.embedded % 256)))]
      [] op.mode = "ApShortOffset" ->
           [bus |-> m.bus,
            res |-> Ok(add_offset(R(m, R_AP), sign_extend_byte(op.embedded % 256)))]
      [] op.mode = "WordDisplacement" ->
           [bus |-> m.bus, res |-> Ok(add_offset(R(m, op.register), op.embedded))]
      [] op.mode = "WordDisplacementDeferred" ->
           bus_do(m, [op |-> "read_word",
                      address |-> add_offset(R(m, op.register), op.embedded)])
      [] op.mode = "HalfwordDisplacement" ->
           [bus |-> m.bus,
            res |-> Ok(add_offset(R(m, op.register),
                                  sign_extend_halfword(op.embedded % 65536)))]
      [] op.mode = "HalfwordDisplacementDeferred" ->
           bus_do(m, [op |-> "read_word",
                      address |-> add_offset(R(m, op.register),
                                             sign_extend_halfword(op.embedded % 65536))])
      [] op.mode = "ByteDisplacement" ->
           [bus |-> m.bus,
            res |-> Ok(add_offset(R(m, op.register),
                                  sign_extend_byte(op.embedded % 256)))]
      [] op.mode = "ByteDisplacementDeferred" ->
           bus_do(m, [op |-> "read_word",
                      address |-> add_offset(R(m, op.register),
                                             sign_extend_byte(op.embedded % 256))])
      [] OTHER -> [bus |-> m.bus, res |-> Err("IllegalOpcode")]

\* effective_address, where x is what its match has yielded
addressed(m, index, x) ==
    [m |-> set_data(after(m, x), index, x.res.v), v |-> x.res.v]

\* effective_address(bus, index): the machine afterwards and the address
effective_address(m, index) ==
    IF ok(m)
    THEN addressed(m, index, address_of(m, m.cpu.ir.operands[index]))
    ELSE [m |-> m, v |-> 0]

\* read_op of a register operand: the register as the data type t
register_as(v, t) ==
    CASE t \in {"Word", "UWord"} -> Ok(v)
      [] t = "Half" -> Ok(sign_extend_halfword(v % 65536))
      [] t = "UHalf" -> Ok(v % 65536)
      [] t = "Byte" -> Ok(v % 256)
      [] t = "SByte" -> Ok(sign_extend_byte(v % 256))
      [] OTHER -> Err("IllegalOpcode")

\* read_op of an operand in memory: the read of the data type t at eff
read_as(m, t, eff) ==
    CASE t \in {"Word", "UWord"} -> bus_do(m, [op |-> "read_word", address |-> eff])
      [] t \in {"Half", "UHalf"} -> bus_do(m, [op |-> "read_half", address |-> eff])
      [] t \in {"Byte", "SByte"} -> bus_do(m, [op |-> "read_byte", address |-> eff])
      [] OTHER -> [bus |-> m.bus, res |-> Err("IllegalOpcode")]

\* what read_op makes of the value v read from memory as the data type t
memory_as(v, t) ==
    CASE t = "Half" -> sign_extend_halfword(v)
      [] t = "SByte" -> sign_extend_byte(v)
      [] OTHER -> v

\* read_op after the bus call or the match x that yielded the value
read_done(m, x, v) == [m |-> after(m, x), v |-> IF x.res.ok THEN v ELSE 0]

\* read_op of an operand in memory, where e is its effective address
read_at(e, t, x) == read_done(e.m, x, memory_as(x.res.v, t))

read_memory(e, t) == read_at(e, t, read_as(e.m, t, e.v))

\* the match of read_op on the mode of the operand op
read_by_mode(m, index, op) ==
    CASE op.mode = "Register" ->
           read_done(m, [bus |-> m.bus,
                         res |-> register_as(R(m, op.register), data_type(op))],
                     register_as(R(m, op.register), data_type(op)).v)
      [] op.mode \in {"PositiveLiteral", "NegativeLiteral", "ByteImmediate"} ->
           [m |-> m, v |-> sign_extend_byte(op.embedded % 256)]
      [] op.mode = "WordImmediate" -> [m |-> m, v |-> op.embedded]
      [] op.mode = "HalfwordImmediate" ->
           [m |-> m, v |-> sign_extend_halfword(op.embedded % 65536)]
      [] OTHER -> read_memory(effective_address(m, index), data_type(op))

\* read_op(bus, index): the machine afterwards and the value
read_op(m, index) ==
    IF ok(m) THEN read_by_mode(m, index, m.cpu.ir.operands[index])
    ELSE [m |-> m, v |-> 0]

\* write_op of an operand in memory: the write of val as the data type t
write_as(m, t, eff, val) ==
    CASE t \in {"Word", "UWord"} ->
           bus_do(m, [op |-> "write_word", address |-> eff, val |-> val])
      [] t \in {"Half", "UHalf"} ->
           bus_do(m, [op |-> "write_half", address |-> eff, val |-> val % 65536])
      [] t \in {"Byte", "SByte"} ->
           bus_do(m, [op |-> "write_byte", address |-> eff, val |-> val % 256])
      [] OTHER -> [bus |-> m.bus, res |-> Err("IllegalOpcode")]

\* write_op of an operand in memory, where e is its effective address
write_memory(e, t, val) == after(e.m, write_as(e.m, t, e.v, val))

\* write_op, register mode: self.r[r] = val
write_register(m, op, val) == set_reg(m, op.register, val)

\* the match of write_op on the mode of the operand op
write_by_mode(m, index, op, val) ==
    CASE op.mode = "Register" -> write_register(m, op, val)
      [] op.mode \in {"NegativeLiteral", "PositiveLiteral", "ByteImmediate",
                      "HalfwordImmediate", "WordImmediate"} -> illegal(m)
      [] OTHER -> write_memory(effective_address(m, index), data_type(op), val)

\* write_op(bus, index, val)
write_op(m, index, val) ==
    IF ok(m)
    THEN set_data(write_by_mode(m, index, m.cpu.ir.operands[index], val), index, val)
    ELSE m

\* c_flag(), v_flag(), z_flag(), n_flag(): the bit f of the PSW
flag(m, f) == (R(m, R_PSW) \div f) % 2 = 1

\* set_c_flag(set), ..: self.r[R_PSW] |= f or &= !f
set_flag(m, f, set) ==
    IF set = flag(m, f) THEN m
    ELSE set_reg(m, R_PSW, IF set THEN R(m, R_PSW) + f ELSE R(m, R_PSW) - f)

\* val & 0x80000000 != 0, val & 0x8000 != 0, val & 0x80 != 0
sign_bit(val, t) ==
    CASE t \in {"Word", "UWord"} -> val < 0
      [] t \in {"Half", "UHalf"} -> (val \div 32768) % 2 = 1
      [] OTHER -> (val \div 128) % 2 = 1

\* set_nz_flags(val, index), by the declared data type of the operand
set_nz_flags(m, val, index) ==
    CASE m.cpu.ir.operands[index].data_type \in {"Word", "UWord"} ->
           set_flag(set_flag(m, F_N, val < 0), F_Z, val = 0)
      [] m.cpu.ir.operands[index].data_type \in {"Half", "UHalf"} ->
           set_flag(set_flag(m, F_N, sign_bit(val, "Half")), F_Z, val % 65536 = 0)
      [] m.cpu.ir.operands[index].data_type \in {"Byte", "SByte"} ->
           set_flag(set_flag(m, F_N, sign_bit(val, "Byte")), F_Z, val % 256 = 0)
      [] OTHER -> m

\* set_v_flag_op(val, index): val > 0xffff and val > 0xff are of the u32
set_v_flag_op(m, val, index) ==
    CASE m.cpu.ir.operands[index].data_type \in {"Word", "UWord"} ->
           set_flag(m, F_V, FALSE)
      [] m.cpu.ir.operands[index].data_type \in {"Half", "UHalf"} ->
           set_flag(m, F_V, val < 0 \/ val > 65535)
      [] m.cpu.ir.operands[index].data_type \in {"Byte", "SByte"} ->
           set_flag(m, F_V, val < 0 \/ val > 255)
      [] OTHER -> m

\* (((a ^ !b) & (a ^ result as u32)) & sign) != 0, sign the sign bit of t
add_overflows(a, b, val, t) ==
    sign_bit(a, t) = sign_bit(b, t) /\ sign_bit(a, t) # sign_bit(val, t)

\* add after write_op and set_nz_flags: the match on the data type t of dst
add_flags(m, a, b, result, t) ==
    CASE ~ok(m) -> m
      [] ok(m) /\ t \in {"Word", "UWord"} ->
           set_flag(set_flag(m, F_C, result.hi > 65535), F_V,
                    add_overflows(a, b, low32(result), t))
      [] ok(m) /\ t \in {"Half", "UHalf"} ->
           set_flag(set_flag(m, F_C, result.hi > 0), F_V,
                    add_overflows(a, b, low32(result), t))
      [] ok(m) /\ t \in {"Byte", "SByte"} ->
           set_flag(set_flag(m, F_C, result.hi > 0 \/ result.lo > 255), F_V,
                    add_overflows(a, b, low32(result), t))
      [] OTHER -> illegal(m)

\* add, where result is the u64 sum of a and b
added(m, a, b, dst, result) ==
    add_flags(set_nz_flags(write_op(m, dst, low32(result)), low32(result), dst),
              a, b, result, data_type(m.cpu.ir.operands[dst]))

\* add(bus, a, b, dst)
add(m, a, b, dst) == added(m, a, b, dst, wide_add(a, b))

\* let a = self.read_op(bus, 0)?; let b = self.read_op(bus, 1)?, where p is
\* the first read and q the second
both(p, q) == [m |-> q.m, a |-> p.v, b |-> q.v]

second_read(p) == both(p, read_op(p.m, 1))

read_two(m) == second_read(read_op(m, 0))

\* ADDW2 | ADDH2 | ADDB2 (dst = 1) and ADDW3 | ADDH3 | ADDB3 (dst = 2)
add_ops(p, dst) == add(p.m, p.a, p.b, dst)

\* the comparison leaves V as it was
compared_keeps_v(m, z, n, c) ==
    set_flag(set_flag(set_flag(m, F_Z, z), F_N, n), F_C, c)

\* set_z_flag(z); set_n_flag(n); set_c_flag(c); set_v_flag(false)
compared(m, z, n, c) ==
    set_flag(set_flag(set_flag(set_flag(m, F_Z, z), F_N, n), F_C, c), F_V, FALSE)

\* b < a, of two u32
less_u32(b, a) == (a < 0 /\ b >= 0) \/ ((a < 0) = (b < 0) /\ b < a)

\* CMPW: b == a, (b as i32) < (a as i32), b < a
compare_words(p) == compared(p.m, p.b = p.a, p.b < p.a, less_u32(p.b, p.a))

\* CMPH: the same of b as u16, b as i16
compare_halves(p) ==
    compared(p.m, p.b % 65536 = p.a % 65536,
             sign_extend_halfword(p.b % 65536) < sign_extend_halfword(p.a % 65536),
             p.b % 65536 < p.a % 65536)

\* CMPB: the same of b as u8, b as i8
compare_bytes(p) ==
    compared(p.m, p.b % 256 = p.a % 256,
             sign_extend_byte(p.b % 256) < sign_extend_byte(p.a % 256),
             p.b % 256 < p.a % 256)

\* MOVB | MOVH | MOVW after the read p of operand 0
moved(p) ==
    set_v_flag_op(set_flag(set_nz_flags(write_op(p.m, 1, p.v), p.v, 1), F_C, FALSE),
                  p.v, 1)

\* the condition of the branch opcode on the flags
branch_taken(m, opcode) ==
    CASE opcode \in {BEH, BEH_D, BEB, BEB_D} -> flag(m, F_Z)
      [] opcode \in {BGH, BGB} -> ~(flag(m, F_N) \/ flag(m, F_Z))
      [] opcode \in {BGEH, BGEB} -> ~flag(m, F_N) \/ flag(m, F_Z)
      [] opcode \in {BGEUH, BGEUB} -> ~flag(m, F_C)
      [] opcode \in {BGUH, BGUB} -> ~(flag(m, F_C) \/ flag(m, F_Z))
      [] opcode \in {BLH, BLB} -> flag(m, F_N) /\ ~flag(m, F_Z)
      [] opcode \in {BLEH, BLEB} -> flag(m, F_N) \/ flag(m, F_Z)
      [] opcode \in {BLEUH, BLEUB} -> flag(m, F_C) \/ flag(m, F_Z)
      [] opcode \in {BLUH, BLUB} -> flag(m, F_C)
      [] opcode \in {BNEH, BNEH_D, BNEB, BNEB_D} -> ~flag(m, F_Z)
      [] opcode \in {BVCH, BVCB} -> ~flag(m, F_V)
      [] opcode \in {BVSH, BVSB} -> flag(m, F_V)
      [] OTHER -> TRUE

\* a taken branch adds the length of the instruction to the displacement
branch_adds_length(m) ==
    IF branch_taken(m, m.cpu.ir.opcode)
    THEN m.cpu.ir.bytes
         + (IF m.cpu.ir.opcode \in HalfBranches
            THEN sign_extend_halfword(m.cpu.ir.operands[0].embedded % 65536)
            ELSE sign_extend_byte(m.cpu.ir.operands[0].embedded % 256))
    ELSE m.cpu.ir.bytes

\* the arms of the branches: pc_increment
branch(m) ==
    IF branch_taken(m, m.cpu.ir.opcode)
    THEN IF m.cpu.ir.opcode \in HalfBranches
         THEN sign_extend_halfword(m.cpu.ir.operands[0].embedded % 65536)
         ELSE sign_extend_byte(m.cpu.ir.operands[0].embedded % 256)
    ELSE m.cpu.ir.bytes

\* the match on ir.opcode: the machine afterwards and pc_increment
execute(m) ==
    CASE m.cpu.ir.opcode = NOP -> [m |-> m, inc |-> 1]
      [] m.cpu.ir.opcode = HALT -> [m |-> [m EXCEPT !.err = "panic"], inc |-> 0]
      [] m.cpu.ir.opcode = MOVBLW -> [m |-> movblw(m), inc |-> m.cpu.ir.bytes]
      [] m.cpu.ir.opcode = STREND -> [m |-> strend(m), inc |-> m.cpu.ir.bytes]
      [] m.cpu.ir.opcode = CALLPS -> [m |-> callps(m), inc |-> 0]
      [] m.cpu.ir.opcode = RETPS -> [m |-> retps(m), inc |-> 0]
      [] m.cpu.ir.opcode \in HalfBranches \cup ByteBranches ->
           [m |-> m, inc |-> branch(m)]
      [] m.cpu.ir.opcode \in {ADDW2, ADDH2, ADDB2} ->
           [m |-> add_ops(read_two(m), 1), inc |-> m.cpu.ir.bytes]
      [] m.cpu.ir.opcode \in {ADDW3, ADDH3, ADDB3} ->
           [m |-> add_ops(read_two(m), 2), inc |-> m.cpu.ir.bytes]
      [] m.cpu.ir.opcode \in {MOVB, MOVH, MOVW} ->
           [m |-> moved(read_op(m, 0)), inc |-> m.cpu.ir.bytes]
      [] m.cpu.ir.opcode = CMPW ->
           [m |-> compare_words(read_two(m)), inc |-> m.cpu.ir.bytes]
      [] m.cpu.ir.opcode = CMPH ->
           [m |-> compare_halves(read_two(m)), inc |-> m.cpu.ir.bytes]
      [] m.cpu.ir.opcode = CMPB ->
           [m |-> compare_bytes(read_two(m)), inc |-> m.cpu.ir.bytes]

\* dispatch: bus.service()
serviced(m) ==
    log([m EXCEPT !.cpu.steps = @ + 1, !.bus.duart = service(@)], "service", 0)

\* an interrupt of the CPU's own level is taken too
take_interrupt_at_level(m, val) ==
    IF IsSome(val)
    THEN IF (R(m, R_PSW) \div 8192) % 16 <= IPL_TABLE[AND(val, 63)]
         THEN on_interrupt(m, AND(NOT8(val), 63))
         ELSE m
    ELSE m

\* dispatch: if let Some(val) = .. { if cpu_ipl < IPL_TABLE[..] { .. } }
take_interrupt(m, val) ==
    IF IsSome(val)
    THEN IF (R(m, R_PSW) \div 8192) % 16 < IPL_TABLE[AND(val, 63)]
         THEN on_interrupt(m, AND(NOT8(val), 63))
         ELSE m
    ELSE m

\* dispatch: bus.get_interrupts() and what follows it
poll(m) ==
    take_interrupt([m EXCEPT !.bus.duart = get_interrupt(@)],
                   get_interrupt_val(m.bus.duart))

\* dispatch up to the decoding of the instruction
recognize(m) == poll(serviced(m))

\* dispatch after decode_instruction(bus)?
decoded_run(m) == IF ok(m) THEN execute(m) ELSE [m |-> m, inc |-> 0]

\* the instruction is fetched before the interrupt is looked for
dispatch_fetch_first(m) == decoded_run(recognize(decode_instruction(m)))

dispatch(m) == decoded_run(decode_instruction(recognize(m)))

\* gate: the new PSW made of the word read, new_psw, and of the PSW
gate_psw(new_psw, psw) ==
    OR32(Clear32(new_psw, F_PM + F_IPL + F_R + F_ISC + F_TM + F_ET),
         AND32(psw, F_CM) \div 4 + AND32(psw, F_IPL) + AND32(psw, F_R)
         + 7 * (2 ^ O_ISC) + 2 ^ O_TM + 3 * (2 ^ O_ET))

\* gate, where x2 is the read of new_psw at gate_l2
gate_enter(m, gate_l2, x2) ==
    set_reg(load_reg(after(m, x2), R_PC, gate_l2 + 4), R_PSW,
            gate_psw(x2.res.v, R(m, R_PSW)))

\* gate after gate_l2 has been read
gate_second(m, gate_l2) == gate_enter(m, gate_l2, rd(m, gate_l2))

\* gate, where x1 is the read at index1
gate_first(m, index2, x1) == gate_second(after(m, x1), x1.res.v + index2)

gate(m, index1, index2) == gate_first(m, index2, rd(m, index1))

\* PSW with ET and ISC replaced by the bits v
set_et_isc(m, v) == set_reg(m, R_PSW, OR32(Clear32(R(m, R_PSW), F_ET + F_ISC), v))

\* the stack pointer stays where it was
on_exception_sp_kept(m) ==
    LET m1 == set_et_isc(m, 3 + 5 * (2 ^ O_ISC))
        m2 == store_reg(m1, R_SP, 0, R_PC)
        m3 == set_et_isc(m2, 3 * (2 ^ O_ISC))
        m4 == store_reg(m3, R_SP, 4, R_PSW)
    IN  gate(m4, 0, 5 * (2 ^ O_ISC))

\* on_exception(ExceptionType::ExternalMemory): et is 3 and isc is 5
on_exception(m) ==
    LET m1 == set_et_isc(m, 3 + 5 * (2 ^ O_ISC))
        m2 == store_reg(m1, R_SP, 0, R_PC)
        m3 == set_et_isc(m2, 3 * (2 ^ O_ISC))
        m4 == store_reg(m3, R_SP, 4, R_PSW)
        m5 == gate(m4, 0, 5 * (2 ^ O_ISC))
    IN  add_reg(m5, R_SP, 8)

\* the match of step on what dispatch returned, d: the machine afterwards
\* (err is "none", or "panic" when step has panicked, or "unmodelled") and
\* what dispatch returned
settle(d) ==
    LET e == d.m.err
        calm == [d.m EXCEPT !.err = "none"]
    IN  CASE e = "none" ->
               [m |-> set_reg(d.m, R_PC, R(d.m, R_PC) + d.inc), res |-> e]
          [] e \in {"panic", "unmodelled"} -> [m |-> d.m, res |-> e]
          [] e \in {"NoDevice", "Read", "Write"} ->
               [m |-> unwrap(on_exception(log(calm, "exception", 0))), res |-> e]
          [] OTHER -> [m |-> calm, res |-> e]

step(m) == settle(dispatch(m))

\* set_isc: ISC of the PSW becomes val & 0xf
set_isc(m, val) ==
    set_reg(m, R_PSW, OR32(Clear32(R(m, R_PSW), F_ISC), (val % 16) * (2 ^ O_ISC)))

\* reset, the if on the I bit of the PSW read
reset_i(m) ==
    IF ok(m) /\ AND32(R(m, R_PSW), F_I) # 0
    THEN add_reg(clear_reg(m, R_PSW, F_I), R_PCBP, 12)
    ELSE m

\* Cpu::reset; the Err of a bus read is in err, and the registers assigned
\* before it keep what they were given
reset(m) ==
    set_isc(reset_i(load_rel(load_rel(load_rel(load_reg(m, R_PCBP, 128),
                                               R_PSW, R_PCBP, 0),
                                      R_PC, R_PCBP, 4),
                             R_SP, R_PCBP, 8)),
            3)

(***************************************************************************)
(* step() pass by pass.  A position is "idle" between two calls of step,   *)
(* "movblw" and "strend" at the head of the loops of these instructions,   *)
(* "cs3" at the head of the outer loop of the context_switch_3 that CALLPS *)
(* calls and "cs3_move" at the head of its inner loop.  A pass goes from   *)
(* one position to the next; it yields the machine, the position reached   *)
(* (an error that ends the run when step has not returned normally) and    *)
(* whether a loop body was executed.                                       *)
(***************************************************************************)
\* step() returns, s is what its match made of the result of dispatch
landed(s, body) ==
    [m |-> s.m, at |-> IF s.m.err = "none" THEN "idle" ELSE s.m.err, body |-> body]

\* the call goes on at the loop head pos, or m has failed and the error
\* goes up to the match of step
paused(m, pos, body) ==
    IF ok(m)
    THEN [m |-> m, at |-> pos, body |-> body]
    ELSE landed(settle([m |-> m, inc |-> 0]), body)

\* CALLPS from context_switch_3 on
begin_callps(m) ==
    IF ok(m) /\ AND32(R(m, R_PSW), F_R) # 0
    THEN paused(cs3_enter(m), "cs3", FALSE)
    ELSE landed(settle([m |-> callps_leave(m), inc |-> 0]), FALSE)

\* step() from the decoded instruction to the first loop head, or to its
\* end when the instruction has no loop
begin(m) ==
    CASE ok(m) /\ m.cpu.ir.opcode = MOVBLW -> paused(m, "movblw", FALSE)
      [] ok(m) /\ m.cpu.ir.opcode = STREND -> paused(m, "strend", FALSE)
      [] ok(m) /\ m.cpu.ir.opcode = CALLPS /\ priv_level(m) = 0 ->
           begin_callps(callps_switch(m))
      [] OTHER -> landed(settle(decoded_run(m)), FALSE)

\* the test of the loop of STREND, made by the pass i, and what follows it
strend_pass(i, bytes) ==
    IF i.again
    THEN paused(i.m, "strend", TRUE)
    ELSE landed(settle([m |-> i.m, inc |-> bytes]), FALSE)

pass(m, pos) ==
    CASE pos = "idle" -> begin(decode_instruction(recognize(m)))
      [] pos = "movblw" ->
           IF R(m, 2) # 0
           THEN paused(movblw_iter(m), "movblw", TRUE)
           ELSE landed(settle([m |-> m, inc |-> m.cpu.ir.bytes]), FALSE)
      [] pos = "strend" -> strend_pass(strend_iter(m), m.cpu.ir.bytes)
      [] pos = "cs3" ->
           IF R(m, 2) # 0
           THEN paused(cs3_head(m), "cs3_move", TRUE)
           ELSE landed(settle([m |-> callps_leave(add_reg(m, 0, 4)), inc |-> 0]), FALSE)
      [] pos = "cs3_move" ->
           IF R(m, 2) # 0
           THEN paused(movblw_iter(m), "cs3_move", TRUE)
           ELSE paused(cs3_tail(m), "cs3", TRUE)

call(m, c) ==
    CASE c.op = "read_byte" -> bus_read_byte(m.bus, c.address)
      [] c.op = "read_word" -> bus_read_word(m.bus, c.address)
      [] c.op = "write_word" -> bus_write_word(m.bus, c.address, c.val)
      [] c.op = "read_half" -> bus_read_half(m.bus, c.address)
      [] c.op = "read_op_half" -> bus_read_op_half(m.bus, c.address)
      [] c.op = "read_op_word" -> bus_read_op_word(m.bus, c.address)
      [] c.op = "write_byte" -> bus_write_byte(m.bus, c.address, c.val)
      [] c.op = "write_half" -> bus_write_half(m.bus, c.address, c.val)
      [] c.op = "reset" -> reset(m)
      [] c.op = "step" -> step(m)
      [] c.op = "pass" -> pass(m, c.at)

(***************************************************************************)
(* State.  duart is the Duart; the other variables are history variables   *)
(* that record what the callers of the DUART have seen, and never          *)
(* influence it.                                                           *)
(*   focus  the port the calls of this run address                         *)
(*   last   what the last call was and what it returned                    *)
(*   pend   per port: the receive shift register holds a character that    *)
(*          has not been moved into the FIFO                               *)
(*   rxmon  per port: the host's characters and the RHR reads of a burst   *)
(*          of four characters into an empty receiver                      *)
(*   txmon  port 0: the characters written to THR under TxRDY that no      *)
(*          rs232_tx poll has returned yet                                 *)
(*   ipmon  the IPCR reads since mouse_down(0)                             *)
(* mem is a memory region used by itself, bus is the Bus of the terminal   *)
(* (it owns a Duart of its own), and out is what the last call on mem or   *)
(* bus was and what it returned.  cpu is the Cpu that steps on bus, and at  *)
(* is where it is: "idle" between two calls of step, inside a loop of a    *)
(* step, or "panic" after a panic.                                         *)
(***************************************************************************)
VARIABLES duart, focus, last, pend, rxmon, txmon, ipmon, mem, bus, out, cpu, at,
          fifo

vars == <<duart, focus, last, pend, rxmon, txmon, ipmon, mem, bus, out, cpu, at,
          fifo>>

\* the length of the memory region used by itself
MemLen == 4

\* the memory region used by itself starts at 0x300 (src/mem.rs, tests)
MemStart == 768

\* Bus::new(0x100000) of Dmd::new
DmdBus == NewBus(1048576)

\* a call of width n (1, 2, 4: byte, half-word, word) at address
Call(op, n, address, val, res) ==
    [op |-> op, n |-> n, address |-> address, val |-> val, res |-> res]

NoCall == Call("none", 0, 0, 0, Ok(0))

Other == [op |-> "other", a |-> 0, v |-> 0, r |-> 0, x |-> 0]

Event(op, a, v, r, x) == [op |-> op, a |-> a, v |-> v, r |-> r, x |-> x]

\* ---- pend
PendNext(pd, p, ev, P) ==
    CASE ev.op = "service" /\ receives(P) ->
           IF Len(P.rx_fifo) >= RX_FIFO_LEN THEN TRUE ELSE pd
      [] ev.op = "read" /\ ev.a = RHR(p) /\ rx_enabled(P) -> FALSE
      [] ev.op = "write" /\ ev.a = CR(p) /\ (ev.v \div 16) % 8 = CR_RST_RX -> FALSE
      [] OTHER -> pd

\* ---- rxmon
RxOff == [st |-> "off", enq |-> <<>>, nrx |-> 0, rds |-> <<>>]
RxStart == [st |-> "rx", enq |-> <<>>, nrx |-> 0, rds |-> <<>>]

\* nothing is in the receiver or on its way to it, and it is enabled
RxFresh(Q) ==
    /\ Q.rx_fifo = <<>>
    /\ Q.rx_shift_reg = None
    /\ Q.rx_deque = <<>>
    /\ ~Has(Q.stat, STS_FFL)
    /\ rx_enabled(Q)
    /\ ~loopback(Q)

RxMonNext(m, p, ev, P, Q) ==
    LET m1 == CASE m.st = "off" -> m
                [] ev.op = "rx" /\ ev.a = p ->
                     IF m.st = "rx" /\ Len(m.enq) < 4
                     THEN [m EXCEPT !.enq = Append(@, ev.v)]
                     ELSE RxOff
                [] ev.op = "service" /\ receives(P) ->
                     IF m.st = "rx" /\ m.nrx < Len(m.enq)
                     THEN [m EXCEPT !.nrx = @ + 1]
                     ELSE RxOff
                [] ev.op = "read" /\ ev.a = RHR(p) ->
                     IF m.st = "rx" /\ m.nrx = 4
                     THEN [m EXCEPT !.st = "rd", !.rds = <<ev.x>>]
                     ELSE IF m.st = "rd" /\ Len(m.rds) < 5
                     THEN [m EXCEPT !.rds = Append(@, ev.x)]
                     ELSE RxOff
                [] OTHER -> m
    IN  IF ~rx_enabled(Q) \/ loopback(Q) THEN RxOff
        ELSE IF m1.st = "off" /\ RxFresh(Q) THEN RxStart
        ELSE m1

\* ---- txmon
Opt(o) == IF IsSome(o) THEN <<o>> ELSE <<>>

Rev(q) == [i \in 1..Len(q) |-> q[Len(q) + 1 - i]]

TxIdle(Q) ==
    Q.tx_holding_reg = None /\ Q.tx_shift_reg = None /\ Q.tx_deque = <<>>

TxMonNext(m, ev, P, Q) ==
    LET m0 == [m EXCEPT !.got = None, !.exp = None]
        m1 == CASE ~m.ok -> m0
                [] ev.op = "write" /\ ev.a = THRA ->
                     IF Has(P.stat, STS_TXR)
                     THEN [m0 EXCEPT !.fl = Append(@, ev.v)]
                     ELSE [m0 EXCEPT !.ok = FALSE]
                [] ev.op = "tx" /\ ev.a = PORT_0 /\ IsSome(ev.r) ->
                     [m0 EXCEPT !.got = ev.r,
                                !.exp = IF m.fl = <<>> THEN None ELSE Head(m.fl),
                                !.fl = IF m.fl = <<>> THEN @ ELSE Tail(@)]
                [] ev.op = "write" /\ ev.a = CRA /\ (ev.v \div 16) % 8 = CR_RST_TX ->
                     [m0 EXCEPT !.ok = FALSE]
                [] OTHER -> m0
    IN  IF loopback(Q) THEN [m1 EXCEPT !.ok = FALSE, !.fl = <<>>]
        ELSE IF TxIdle(Q) THEN [m1 EXCEPT !.ok = TRUE, !.fl = <<>>]
        ELSE IF ~m1.ok THEN [m1 EXCEPT !.fl = <<>>]
        ELSE m1

\* ---- ipmon
IpNone == [n |-> 0, v1 |-> None, v2 |-> None]

IpMonNext(m, ev, d) ==
    CASE ev.op = "mouse_down" /\ ev.a = 0 -> [n |-> 1, v1 |-> None, v2 |-> None]
      [] ev.op \in {"mouse_down", "mouse_up"} -> IpNone
      [] ev.op = "get_interrupt" /\ vblank_due(d) -> IpNone
      [] ev.op = "read" /\ ev.a = IPCR_ACR /\ m.n = 1 -> [m EXCEPT !.n = 2, !.v1 = ev.r]
      [] ev.op = "read" /\ ev.a = IPCR_ACR /\ m.n >= 2 -> [m EXCEPT !.n = 3, !.v2 = ev.r]
      [] OTHER -> m

\* a command with the enable and the disable bit of one direction both set
BothBits(cmd) ==
    \/ Has(cmd, CMD_ERX) /\ Has(cmd, CMD_DRX)
    \/ Has(cmd, CMD_ETX) /\ Has(cmd, CMD_DTX)

\* what last keeps of an event: the RHR reads (x: the character taken, or
\* None), the IPCR reads (r: the value returned), the commands with both bits
\* of a direction (v: the command, x: conf before it) and the polls of the TX
\* queues (r: the character returned, or None)
Keep(ev) ==
    CASE ev.op = "read" /\ ev.a \in {RHRA, RHRB} -> [ev EXCEPT !.r = 0]
      [] ev.op = "read" /\ ev.a = IPCR_ACR -> ev
      [] ev.op = "write" /\ ev.a \in {CRA, CRB} /\ BothBits(ev.v) -> ev
      [] ev.op = "tx" -> ev
      [] OTHER -> Other

\* one call: the DUART becomes d2, and the history variables follow
Step(d2, ev) ==
    /\ duart' = d2
    /\ focus' = focus
    /\ last' = Keep(ev)
    /\ pend' = [p \in Ports |-> PendNext(pend[p], p, ev, duart.ports[p])]
    /\ rxmon' = [p \in Ports |->
                   RxMonNext(rxmon[p], p, ev, duart.ports[p], d2.ports[p])]
    /\ txmon' = TxMonNext(txmon, ev, duart.ports[PORT_0], d2.ports[PORT_0])
    /\ ipmon' = IpMonNext(ipmon, ev, duart)
    /\ UNCHANGED <<mem, bus, out, cpu, at, fifo>>

Init ==
    /\ duart = NewDuart
    /\ focus \in Ports
    /\ last = Other
    /\ pend = [p \in Ports |-> FALSE]
    /\ rxmon = [p \in Ports |-> RxOff]
    /\ txmon = [ok |-> TRUE, fl |-> <<>>, got |-> None, exp |-> None]
    /\ ipmon = IpNone
    /\ mem = NewMem(MemStart, MemLen, FALSE)
    /\ bus = DmdBus
    /\ out = NoCall
    /\ cpu = NewCpu
    /\ at = "idle"
    /\ fifo = NewFifo

(***************************************************************************)
(* The calls.                                                              *)
(***************************************************************************)
MR(p) == IF p = PORT_0 THEN MR12A ELSE MR12B
CSR(p) == IF p = PORT_0 THEN CSRA ELSE CSRB

\* the CPU reads one of the registers regs
Read(regs) ==
    \E reg \in regs :
        Step(read_byte(duart, reg),
             Event("read", reg, 0, read_byte_val(duart, reg),
                   IF reg \in {RHRA, RHRB}
                   THEN rx_read_val(duart.ports[IF reg = RHRA THEN PORT_0 ELSE PORT_1])
                   ELSE 0))

\* the CPU writes one of vals to the register reg
Write(reg, vals) ==
    \E val \in vals :
        Step(write_byte(duart, reg, val),
             Event("write", reg, val, 0,
                   IF reg \in {CRA, CRB}
                   THEN duart.ports[IF reg = CRA THEN PORT_0 ELSE PORT_1].conf
                   ELSE 0))

\* the host polls its TX queues often enough that they stay short
QueuesShort(d) ==
    \A p \in Ports : Len(d.ports[p].tx_deque) <= MaxTxQueue

Service ==
    /\ QueuesShort(service(duart))
    /\ Step(service(duart),
            Event("service", 0, 0, 0,
                  (IF receives(duart.ports[PORT_0]) THEN 1 ELSE 0)
                  + (IF receives(duart.ports[PORT_1]) THEN 2 ELSE 0)))

GetInterrupt ==
    Step(get_interrupt(duart),
         Event("get_interrupt", 0, 0, get_interrupt_val(duart), 0))

Rs232Rx ==
    \E c \in Bytes :
        /\ focus = PORT_0
        /\ Len(duart.ports[PORT_0].rx_deque) < MaxRxQueue
        /\ Step(rs232_rx(duart, c), Event("rx", PORT_0, c, 0, 0))

KeyboardRx ==
    \E c \in Bytes :
        /\ focus = PORT_1
        /\ Len(duart.ports[PORT_1].rx_deque) < MaxRxQueue
        /\ Step(keyboard_rx(duart, c), Event("rx", PORT_1, c, 0, 0))

Rs232Tx ==
    /\ focus = PORT_0
    /\ Step(rs232_tx(duart), Event("tx", PORT_0, 0, rs232_tx_val(duart), 0))

KeyboardTx ==
    /\ focus = PORT_1
    /\ Step(keyboard_tx(duart), Event("tx", PORT_1, 0, keyboard_tx_val(duart), 0))

MouseDown ==
    \E b \in Buttons : Step(mouse_down(duart, b), Event("mouse_down", b, 0, 0, 0))

MouseUp ==
    \E b \in Buttons : Step(mouse_up(duart, b), Event("mouse_up", b, 0, 0, 0))

Tick == Step(elapse(duart, TickNs), Event("tick", 0, 0, 0, 0))

(***************************************************************************)
(* The receive path of one port: the host queues characters, the CPU       *)
(* commands the receiver and reads RHR and the status.                     *)
(***************************************************************************)
RxRead == Read({RHR(focus), CSR(focus)})
RxCommand == Write(CR(focus), RxCmds)

NextRx ==
    \/ Rs232Rx
    \/ KeyboardRx
    \/ Service
    \/ Tick
    \/ RxRead
    \/ RxCommand

SpecRx == Init /\ [][NextRx]_vars

(***************************************************************************)
(* The transmit path of one port in normal mode: the CPU writes the mode   *)
(* register, commands the transmitter, writes THR and reads                *)
(* the status; the host polls its TX queue.                                *)
(***************************************************************************)
TxWrite == Write(THR(focus), Bytes)
TxMode == Write(MR(focus), {0})
TxClock == Write(CSR(focus), CsrVals)
TxCommand == Write(CR(focus), TxCmds)
TxRead == Read({CSR(focus), MR(focus)})

NextTx ==
    \/ TxWrite
    \/ TxMode
    \/ TxCommand
    \/ TxClock
    \/ TxRead
    \/ Service
    \/ Tick
    \/ Rs232Tx
    \/ KeyboardTx

SpecTx == Init /\ [][NextTx]_vars

(***************************************************************************)
(* The input port and the registers of the whole DUART: the host moves     *)
(* the mouse buttons, time brings vertical blanks, the CPU polls for       *)
(* interrupts, reads IPCR, ISR and the input port, writes ACR, IMR and     *)
(* the output port bits, and commands and clocks a port that carries no    *)
(* data.                                                                   *)
(***************************************************************************)
IpRead == Read({IPCR_ACR, ISR_MASK, IP_OPCR, 0})
IpAcr == Write(IPCR_ACR, AcrVals)
IpImr == Write(ISR_MASK, ImrVals)
IpOpSet == Write(OPBITS_SET, OpVals)
IpOpReset == Write(OPBITS_RESET, OpVals)
IpCommand == Write(CR(focus), CmdVals)
IpClock == Write(CSR(focus), CsrVals)

NextIp ==
    \/ MouseDown
    \/ MouseUp
    \/ GetInterrupt
    \/ Tick
    \/ IpRead
    \/ IpAcr
    \/ IpImr
    \/ IpOpSet
    \/ IpOpReset
    \/ IpCommand
    \/ IpClock

SpecIp == Init /\ [][NextIp]_vars

(***************************************************************************)
(* Port 0 on its way into local loopback: the CPU writes the loopback      *)
(* mode, enables the receiver, sets the clock, and writes one character    *)
(* at a time to THR, the next one when the last has left the port; it      *)
(* reads RHR.  The CPU step calls service on every instruction             *)
(* (cpu.rs, dispatch), the clock runs, and the firmware keeps reading      *)
(* RHR: these three are weakly fair.                                       *)
(***************************************************************************)
\* nothing is on its way through port 0
LbClean ==
    LET P == duart.ports[PORT_0]
    IN  /\ P.tx_holding_reg = None
        /\ P.tx_shift_reg = None
        /\ P.rx_fifo = <<>>
        /\ P.rx_shift_reg = None
        /\ Len(P.tx_deque) < MaxTxQueue

LbMode == Write(MR12A, {128})
LbCommand == Write(CRA, {1, 5})
LbClock == Write(CSRA, CsrVals)
LbWrite == LbClean /\ Write(THRA, Bytes)
LbRead == Read({RHRA})

LoopInit == Init /\ focus = PORT_0

NextLoop ==
    \/ LbMode
    \/ LbCommand
    \/ LbClock
    \/ LbWrite
    \/ LbRead
    \/ Service
    \/ Tick

LoopSpec ==
    /\ LoopInit
    /\ [][NextLoop]_vars
    /\ WF_vars(Service)
    /\ WF_vars(Tick)
    /\ WF_vars(LbRead)

(***************************************************************************)
(* Properties of the DUART.                                                *)
(***************************************************************************)
Port0 == duart.ports[PORT_0]
Port1 == duart.ports[PORT_1]

FourthAfterDrain ==
    \A p \in Ports :
        LET m == rxmon[p]
        IN  /\ (m.st = "rx" /\ m.nrx = 4) =>
                 /\ duart.ports[p].rx_shift_reg = m.enq[4]
                 /\ duart.ports[p].rx_fifo = SubSeq(m.enq, 1, 3)
            /\ (m.st = "rd" /\ Len(m.rds) >= 4) => m.rds[4] = m.enq[4]
            /\ (m.st = "rd" /\ Len(m.rds) >= 5) => m.rds[5] = None

\* C4 (SpecRx): an RHR read that takes a character and leaves the FIFO empty
\* leaves RxRDY clear.
RxRdyClearWhenDrained ==
    \A p \in Ports :
        ( /\ last.op = "read"
          /\ last.a = RHR(p)
          /\ IsSome(last.x)
          /\ duart.ports[p].rx_fifo = <<>> )
        => ~Has(duart.ports[p].stat, STS_RXR)

\* the read of the last character has happened
RxDrainedReached ==
    \E p \in Ports :
        /\ last.op = "read"
        /\ last.a = RHR(p)
        /\ IsSome(last.x)
        /\ duart.ports[p].rx_fifo = <<>>
        /\ ~Has(duart.ports[p].stat, STS_RXR)

\* C5 (SpecRx): when service receives a character from the host queue of a
\* port, Overrun is set by it if and only if the FIFO is full and the shift
\* register holds an earlier character that has not been moved into the FIFO.
OverrunIffLost ==
    [][ \A p \in Ports :
          Len(duart'.ports[p].rx_deque) < Len(duart.ports[p].rx_deque)
          => ( Has(duart'.ports[p].stat, STS_OER)
               <=> ( \/ Has(duart.ports[p].stat, STS_OER)
                     \/ ( /\ Len(duart.ports[p].rx_fifo) >= RX_FIFO_LEN
                          /\ pend[p] ) ) ) ]_vars

KeyboardForwardsBit3Only ==
    /\ \A i \in 1..Len(Port1.tx_deque) : Has(Port1.tx_deque[i], 8)
    /\ (last.op = "tx" /\ last.a = PORT_1 /\ IsSome(last.r)) => Has(last.r, 8)

\* C8 (SpecIp): after a command with the enable and the disable bit of a
\* direction both set, that direction is disabled.
DisableWins ==
    \A p \in Ports :
        (last.op = "write" /\ last.a = CR(p)) =>
            /\ (Has(last.v, CMD_ERX) /\ Has(last.v, CMD_DRX))
                 => ~Has(duart.ports[p].conf, CNF_ERX)
            /\ (Has(last.v, CMD_ETX) /\ Has(last.v, CMD_DTX))
                 => ~Has(duart.ports[p].conf, CNF_ETX)

\* such a command has been given to a port whose receiver and transmitter
\* were enabled
DisableWinsReached ==
    \E p \in Ports :
        /\ last.op = "write"
        /\ last.a = CR(p)
        /\ last.x = OR(CNF_ETX, CNF_ERX)
        /\ duart.ports[p].conf # last.x

\* C9 as claimed (SpecIp): a read of IPCR returns the value from before the
\* read, and changes nothing but the low nibble of IPCR and ISR bit 0x80.
IpcrReadFrame ==
    [][ (last'.op = "read" /\ last'.a = IPCR_ACR) =>
          ( /\ last'.r = duart.ipcr
            /\ duart' = [duart EXCEPT !.ipcr = Clear(@, 15),
                                      !.isr = Clear(@, ISTS_IPC)] ) ]_vars

\* C9 as amended (SpecIp): a read of IPCR returns the value from before the
\* read, clears the low nibble of IPCR and ISR bit 0x80, and sets the
\* pending-interrupt vector to 0; nothing else changes.
IpcrReadFrameVector ==
    [][ (last'.op = "read" /\ last'.a = IPCR_ACR) =>
          ( /\ last'.r = duart.ipcr
            /\ duart' = [duart EXCEPT !.ipcr = Clear(@, 15),
                                      !.isr = Clear(@, ISTS_IPC),
                                      !.ivec = 0] ) ]_vars

\* an IPCR read has returned the mouse bit and left ISR and the vector clear
\* while a port was enabled
IpcrReadReached ==
    /\ last.op = "read"
    /\ last.a = IPCR_ACR
    /\ last.r = 128
    /\ duart.ipcr = 128
    /\ duart.ivec = 0
    /\ ~Has(duart.isr, ISTS_IPC)
    /\ \E p \in Ports : duart.ports[p].conf # 0

\* C10 (SpecIp): after mouse_down(0), with no other mouse event and no
\* vertical blank since, the first IPCR read returns 0x80 and every later
\* one returns 0.
MouseDownReadOnce ==
    /\ ipmon.n >= 2 => ipmon.v1 = 128
    /\ ipmon.n = 3 => ipmon.v2 = 0

\* C3 (LoopSpec): with port 0 in loopback and its receiver enabled, a
\* character in the transmit holding register is eventually returned by an
\* RHR read, and service pushes nothing onto the host-facing TX queue.
LoopbackDelivers ==
    /\ \A c \in Bytes :
         (Port0.tx_holding_reg = c /\ loopback(Port0) /\ rx_enabled(Port0))
           ~> (last.op = "read" /\ last.a = RHRA /\ last.x = c)
    /\ [][ loopback(Port0) => duart'.ports[PORT_0].tx_deque = Port0.tx_deque ]_vars

\* a looped-back character has been read while the TX queue held an earlier,
\* normal-mode character
LoopbackReached ==
    /\ loopback(Port0)
    /\ last.op = "read"
    /\ last.a = RHRA
    /\ IsSome(last.x)
    /\ Port0.tx_deque # <<>>
    /\ Port0.tx_deque[1] # last.x

(***************************************************************************)
(* A memory region by itself (src/mem.rs, tests): a region of MemLen       *)
(* bytes, read-only or not, is loaded, read and written at the addresses   *)
(* around it.                                                              *)
(***************************************************************************)
MemAddrs == (MemStart - 1) .. (MemStart + MemLen)

Programs == {<<1, 2, 3, 4>>, <<5, 6>>}

\* the values written, by width: 0x04, 0x0304, 0x01020304
WriteVals(n) == CASE n = 1 -> {4} [] n = 2 -> {772} [] OTHER -> {16909060}

Quiet ==
    /\ duart = NewDuart
    /\ focus = PORT_0
    /\ last = Other
    /\ pend = [p \in Ports |-> FALSE]
    /\ rxmon = [p \in Ports |-> RxOff]
    /\ txmon = [ok |-> TRUE, fl |-> <<>>, got |-> None, exp |-> None]
    /\ ipmon = IpNone
    /\ fifo = NewFifo

DuartVars == <<duart, focus, last, pend, rxmon, txmon, ipmon, fifo>>

MemInit ==
    /\ Quiet
    /\ mem \in {NewMem(MemStart, MemLen, ro) : ro \in BOOLEAN}
    /\ bus = DmdBus
    /\ out = NoCall
    /\ cpu = NewCpu
    /\ at = "idle"

MemCall(r, op, n, address, val) ==
    /\ mem' = r.mem
    /\ out' = Call(op, n, address, val, r.res)
    /\ UNCHANGED <<DuartVars, bus, cpu, at>>

MemLoad ==
    \E a \in MemAddrs, prog \in Programs :
        MemCall(mem_load(mem, a, prog), "load", Len(prog), a, 0)

MemRead ==
    \E a \in MemAddrs, n \in {1, 2, 4} :
        MemCall([mem |-> mem,
                 res |-> CASE n = 1 -> mem_read_byte(mem, a)
                           [] n = 2 -> mem_read_half(mem, a)
                           [] OTHER -> mem_read_word(mem, a)],
                "read", n, a, 0)

MemWrite ==
    \E a \in MemAddrs, n \in {1, 2, 4} : \E v \in WriteVals(n) :
        MemCall(mem_write(mem, a, v, n), "write", n, a, v)

NextMem ==
    \/ MemLoad
    \/ MemRead
    \/ MemWrite

SpecMem == MemInit /\ [][NextMem]_vars

(***************************************************************************)
(* C17.  For bytes b0, b1, b2, b3 at consecutive addresses from a          *)
(* word-aligned address of a memory region, read_word returns              *)
(* (b0<<24)|(b1<<16)|(b2<<8)|b3 and read_half returns (b0<<8)|b1: the most *)
(* significant byte is at the lowest address.                              *)
(***************************************************************************)
ReadsBigEndian ==
    LET o == out.address - mem.start_address
        b(i) == ram_at(mem.ram, o + i)
    IN  /\ out.op = "read" /\ out.n = 4 /\ out.res.ok /\ out.address % 4 = 0
            => out.res.v = 16777216 * b(0) + 65536 * b(1) + 256 * b(2) + b(3)
        /\ out.op = "read" /\ out.n = 2 /\ out.res.ok /\ out.address % 4 = 0
            => out.res.v = 256 * b(0) + b(1)

(***************************************************************************)
(* The bus by itself (src/bus.rs, tests): the ROM is loaded, and the data  *)
(* path and the operand path are used at addresses of devices and of no    *)
(* device.                                                                 *)
(***************************************************************************)
\* ROM, no device, DUART, mouse, RAM
BusAddrs ==
    {0, 1, 1048576, 1048577, 2097152, 2097153, 4194304, 4194305,
     7340032, 7340033, 7340034}

\* the ROM image is loaded at 0
LoadAddrs == {0}

BusInit ==
    /\ Quiet
    /\ mem = NewMem(MemStart, MemLen, FALSE)
    /\ bus = DmdBus
    /\ out = NoCall
    /\ cpu = NewCpu
    /\ at = "idle"

\* a call of the bus that ended with r: the bus afterwards and the result
BusCall(r, op, n, address, val) ==
    /\ bus' = r.bus
    /\ out' = Call(op, n, address, val, r.res)
    /\ UNCHANGED <<DuartVars, mem, cpu, at>>

BusLoad ==
    \E a \in LoadAddrs, prog \in {<<1, 2, 3, 4>>} :
        BusCall(bus_load(bus, a, prog), "load", 0, a, 0)

BusRead ==
    \E a \in BusAddrs, n \in {1, 2, 4} :
        BusCall(CASE n = 1 -> bus_read_byte(bus, a)
                  [] n = 2 -> bus_read_half(bus, a)
                  [] OTHER -> bus_read_word(bus, a),
                "read", n, a, 0)

BusReadOp ==
    \E a \in BusAddrs, n \in {2, 4} :
        BusCall(IF n = 2 THEN bus_read_op_half(bus, a) ELSE bus_read_op_word(bus, a),
                "read_op", n, a, 0)

BusWrite ==
    \E a \in BusAddrs, n \in {1, 2, 4} : \E v \in WriteVals(n) :
        BusCall(CASE n = 1 -> bus_write_byte(bus, a, v)
                  [] n = 2 -> bus_write_half(bus, a, v)
                  [] OTHER -> bus_write_word(bus, a, v),
                "write", n, a, v)

BusVideoRam ==
    BusCall([bus |-> bus_video_ram(bus), res |-> Ok(0)], "video_ram", 0, 0, 0)

NextBus ==
    \/ BusLoad
    \/ BusRead
    \/ BusReadOp
    \/ BusWrite
    \/ BusVideoRam

SpecBus == BusInit /\ [][NextBus]_vars

(***************************************************************************)
(* C18.  For bytes b0, b1, b2, b3 at consecutive addresses of a memory     *)
(* region from addr on, read_op_word(addr) returns                         *)
(* (b3<<24)|(b2<<16)|(b1<<8)|b0, whether addr is aligned or not, and       *)
(* read_op_half and read_op_word never return an alignment error.          *)
(***************************************************************************)
OpWordLittleEndian ==
    LET dev == get_device(out.address)
        o == out.address - bus[dev].start_address
        b(i) == ram_at(bus[dev].ram, o + i)
    IN  /\ out.op = "read_op" /\ out.n = 4 /\ dev \in MemDevices /\ o + 3 < bus[dev].len
            => out.res = Ok(16777216 * b(3) + 65536 * b(2) + 256 * b(1) + b(0))
        /\ out.op = "read_op" => out.res.err # "Alignment"

\* read_op_word at the misaligned ROM address 1 over the bytes 2, 3, 4, 0
OpWordMisalignedRead ==
    /\ out.op = "read_op"
    /\ out.n = 4
    /\ out.address = 1
    /\ bus.rom.ram = (0 :> 1 @@ 1 :> 2 @@ 2 :> 3 @@ 3 :> 4)
    /\ out.res = Ok(262144 + 768 + 2)

(***************************************************************************)
(* C19.  On the data path a half-word read or write at an odd address and  *)
(* a word read or write at an address that is not a multiple of 4 returns  *)
(* the alignment error, whatever device or no device the address maps to,  *)
(* and leaves the bus and all its devices as they were.                    *)
(***************************************************************************)
MisalignedRejected ==
    [][out'.op \in {"read", "write"} /\ out'.n \in {2, 4}
       /\ out'.address % out'.n # 0
       => out'.res = Err("Alignment") /\ bus' = bus]_vars

\* a half-word read at the odd DUART address whose register at +2 is MR12A
MisalignedDuartRead ==
    /\ out.op = "read"
    /\ out.n = 2
    /\ out.address = 2097153
    /\ out.res = Err("Alignment")

(***************************************************************************)
(* C20.  A byte, half-word or word write to an address of the ROM changes  *)
(* nothing: the ROM's bytes, the other devices and the dirty flag of the   *)
(* frame buffer are after the write what they were before it.              *)
(***************************************************************************)
RomWriteChangesNothing ==
    [][out'.op = "write" /\ get_device(out'.address) = "rom" => bus' = bus]_vars

\* an aligned word write to the loaded ROM was refused
RomWriteRefused ==
    /\ out.op = "write"
    /\ out.n = 4
    /\ out.address = 0
    /\ out.res = Err("Write")
    /\ bus.rom.ram = (0 :> 1 @@ 1 :> 2 @@ 2 :> 3 @@ 3 :> 4)

(***************************************************************************)
(* The CPU on the bus (src/cpu.rs, step; src/dmd.rs).  The ROM holds the   *)
(* gate table and the interrupt vector of the vertical blank, the RAM      *)
(* holds three processes: A, which runs first, B, whose PCB A's R0 may     *)
(* point to, and the interrupt handler I.  Time passes (the vertical       *)
(* blank falls due) and the CPU steps.                                     *)
(***************************************************************************)
\* the number of steps of a run
MaxSteps == 3

Layout ==
    [gate1 |-> 256, handler |-> 7340096,
     prog_a |-> 7340032, prog_b |-> 7340048, prog_i |-> 7340064,
     pcb_a |-> 7340288, pcb_b |-> 7340544, pcb_i |-> 7340800,
     isp |-> 7341056, sp_a |-> 7341312, sp_b |-> 7341568, sp_i |-> 7341824,
     dst |-> 7342080, str |-> 8388606, hole |-> 1048576,
     pcb_q |-> 8388512, edge |-> 8388600]

\* the bytes of a word as write_word stores them
Le(val) == <<byte_of(val, 0), byte_of(val, 1), byte_of(val, 2), byte_of(val, 3)>>

\* Bus::load of every <<address, bytes>> of img
RECURSIVE load_all(_, _)
load_all(b, img) ==
    IF img = <<>> THEN b
    ELSE load_all(bus_load(b, Head(img)[1], Head(img)[2]).bus, Tail(img))

\* NOP, CALLPS, RETPS, STREND, MOVBLW and a byte without mnemonic
OpBytes == {<<112>>, <<48, 172>>, <<48, 200>>, <<48, 31>>, <<48, 25>>, <<1>>}

\* the memory: A's instruction is op_a, B's is op_b, the PSW of B's PCB is
\* psw_b and its block list moves one word to dst; the vector of the
\* vertical blank (val 2, vector 61) is I's PCB
Image(op_a, op_b, psw_b) ==
    load_all(DmdBus,
        <<<<0, Le(Layout.gate1)>>,
          <<Layout.gate1 + 40, Le(8388608 + F_IPL)>>,
          <<Layout.gate1 + 44, Le(Layout.handler)>>,
          <<140 + 4 * 61, Le(Layout.pcb_i)>>,
          <<Layout.prog_a, op_a>>,
          <<Layout.prog_b, op_b>>,
          <<Layout.prog_i, <<112>>>>,
          <<Layout.handler, <<112>>>>,
          <<Layout.pcb_b, Le(psw_b)>>,
          <<Layout.pcb_b + 4, Le(Layout.prog_b)>>,
          <<Layout.pcb_b + 8, Le(Layout.sp_b)>>,
          <<Layout.pcb_b + 64, Le(1)>>,
          <<Layout.pcb_b + 68, Le(Layout.dst)>>,
          <<Layout.pcb_b + 72, Le(17)>>,
          <<Layout.pcb_i, Le(F_IPL)>>,
          <<Layout.pcb_i + 4, Le(Layout.prog_i)>>,
          <<Layout.pcb_i + 8, Le(Layout.sp_i)>>,
          <<Layout.str, <<65, 66>>>>>>)

\* the registers of A
RegsA(psw, pc, r0, r2) ==
    [i \in 0 .. 15 |->
        CASE i = 0 -> r0
          [] i = 1 -> Layout.dst
          [] i = 2 -> r2
          [] i = R_FP -> Layout.sp_a + 16
          [] i = R_AP -> Layout.sp_a + 32
          [] i = R_PSW -> psw
          [] i = R_SP -> Layout.sp_a
          [] i = R_PCBP -> Layout.pcb_a
          [] i = R_ISP -> Layout.isp
          [] i = R_PC -> pc
          [] OTHER -> 16 + i]

\* PSW values: CM Kernel or User, IPL 13 or 14, I clear or set
PswA == {cm * 2048 + ipl * 8192 + i * F_I : cm \in {0, 3}, ipl \in {13, 14}, i \in {0, 1}}

\* PSW values of B's PCB: Kernel, IPL 15, R and I clear or set
PswB == {F_IPL + r * F_R + i * F_I : r \in {0, 1}, i \in {0, 1}}

NoStep == [op |-> "none", res |-> "none", trace |-> <<>>, seq |-> "", snap |-> 0]

CpuInit ==
    /\ Quiet
    /\ mem = NewMem(MemStart, MemLen, FALSE)
    /\ \E op_a \in OpBytes, op_b \in {<<48, 200>>, <<112>>}, psw_b \in PswB :
           bus = Image(op_a, op_b, psw_b)
    /\ \E psw \in PswA, pc \in {Layout.prog_a, Layout.hole},
          r0 \in {Layout.pcb_b, Layout.str, Layout.hole}, r2 \in {0, 2} :
           cpu = [NewCpu EXCEPT !.r = RegsA(psw, pc, r0, r2)]
    /\ out = NoStep
    /\ at = "idle"

\* the step that ended with s executed the instruction opcode to its end,
\* and no interrupt was taken before it
Executed(s, opcode) ==
    /\ s.res = "none"
    /\ s.m.cpu.ir.opcode = opcode
    /\ \A k \in 1 .. Len(s.m.trace) : s.m.trace[k].e # "interrupt"

\* Cpu::step
CpuStep ==
    /\ at = "idle"
    /\ cpu.steps < MaxSteps
    /\ \E s \in {call(Machine(cpu, bus), [op |-> "step"])} :
           /\ cpu' = s.m.cpu
           /\ bus' = s.m.bus
           /\ at' = IF s.m.err = "none" THEN "idle" ELSE s.m.err
           /\ out' = [op |-> "step", res |-> s.res, trace |-> s.m.trace,
                      seq |-> CASE Executed(s, CALLPS) -> "callps"
                                [] Executed(s, RETPS) /\ out.seq = "callps" -> "callps_retps"
                                [] OTHER -> "",
                      snap |-> CASE Executed(s, CALLPS) ->
                                      [r |-> cpu.r,
                                       psw |-> bus_read_word(bus, cpu.r[0]).res.v]
                                 [] Executed(s, RETPS) /\ out.seq = "callps" -> out.snap
                                 [] OTHER -> 0]
    /\ UNCHANGED <<DuartVars, mem>>

\* time passes between two steps
CpuTick ==
    /\ at = "idle"
    /\ bus' = [bus EXCEPT !.duart = elapse(@, TickNs)]
    /\ UNCHANGED <<DuartVars, mem, cpu, out, at>>

NextCpu ==
    \/ CpuStep
    \/ CpuTick

SpecCpu == CpuInit /\ [][NextCpu]_vars

(***************************************************************************)
(* C11.  CALLPS executed in Kernel mode with R0 at a PCB whose PSW has R   *)
(* set, followed by RETPS executed by the process switched to: after the   *)
(* RETPS the registers PCBP, SP, R0 to R8, FP and AP hold the values they  *)
(* had just before the CALLPS, and PC is the address after the CALLPS.     *)
(* CallpsRetpsRestores is the statement for every PSW of the caller;       *)
(* CallpsRetpsRestoresIClear is the statement for a caller whose PSW has   *)
(* the I bit clear.                                                        *)
(***************************************************************************)
CallpsRetpsRestores ==
    out.seq = "callps_retps" /\ AND32(out.snap.psw, F_R) # 0
    => /\ \A i \in (0 .. 8) \cup {R_FP, R_AP, R_SP, R_PCBP} : cpu.r[i] = out.snap.r[i]
       /\ cpu.r[R_PC] = out.snap.r[R_PC] + 2

CallpsRetpsRestoresIClear ==
    /\ out.seq = "callps_retps"
    /\ AND32(out.snap.psw, F_R) # 0
    /\ AND32(out.snap.r[R_PSW], F_I) = 0
    => /\ \A i \in (0 .. 8) \cup {R_FP, R_AP, R_SP, R_PCBP} : cpu.r[i] = out.snap.r[i]
       /\ cpu.r[R_PC] = out.snap.r[R_PC] + 2

\* A has called B, whose PCB has R set, and B has returned
CallpsRetpsDone ==
    /\ out.seq = "callps_retps"
    /\ AND32(out.snap.psw, F_R) # 0
    /\ AND32(out.snap.r[R_PSW], F_I) = 0
    /\ out.snap.r[0] = Layout.pcb_b
    /\ cpu.r[R_PC] = Layout.prog_a + 2

(***************************************************************************)
(* C12.  A step that finds CALLPS or RETPS at PC while the CM field of    *)
(* the PSW is not Kernel ends with the privileged-opcode exception.       *)
(***************************************************************************)
PrivilegedRaised ==
    [][LET pc == cpu.r[R_PC]
           b1 == bus_read_byte(bus, pc).res
           b2 == bus_read_byte(bus, pc + 1).res
       IN  /\ cpu'.steps = cpu.steps + 1
           /\ \A k \in 1 .. Len(out'.trace) : out'.trace[k].e # "interrupt"
           /\ b1 = Ok(48) /\ b2 \in {Ok(172), Ok(200)}
           /\ (cpu.r[R_PSW] \div 2048) % 4 # 0
           => out'.res = "PrivilegedOpcode"]_vars

\* RETPS was refused
PrivilegedRetps ==
    /\ out.op = "step"
    /\ out.res = "PrivilegedOpcode"
    /\ cpu.ir.opcode = RETPS
    /\ cpu.r[R_PC] = Layout.prog_a

InterruptIffAboveLevel ==
    [][LET val == get_interrupt_val(service(bus.duart))
           ipl == (cpu.r[R_PSW] \div 8192) % 16
           due == IsSome(val) /\ ipl < IPL_TABLE[val % 64]
       IN  cpu'.steps = cpu.steps + 1
           => /\ due <=> \E k \in 1 .. Len(out'.trace) : out'.trace[k].e = "interrupt"
              /\ ~due => out'.trace[2] = [e |-> "fetch", a |-> cpu.r[R_PC]]]_vars

\* the vertical blank has interrupted A, whose IPL was 13
InterruptTaken ==
    /\ out.op = "step"
    /\ Len(out.trace) >= 2
    /\ out.trace[2] = [e |-> "interrupt", a |-> 61]
    /\ cpu.r[R_PCBP] = Layout.pcb_i
    /\ bus_read_word(bus, Layout.pcb_a).res.v \div 8192 = 13

(***************************************************************************)
(* C15.  In a step the devices are serviced first, then the interrupt is   *)
(* looked for, then the instruction is fetched; when an interrupt is taken *)
(* the switch to the handler's PCB is complete before the fetch: the fetch *)
(* is at the PC of the handler's PCB, and the instruction at the PC of     *)
(* before the step is not executed in that step.                           *)
(***************************************************************************)
ServiceInterruptFetch ==
    [][LET t == out'.trace
           new_pcbp == bus_read_word(bus, 140 + 4 * t[2].a).res.v
           pc == bus_read_word(bus, new_pcbp + 4).res.v
       IN  cpu'.steps = cpu.steps + 1
           => /\ t[1].e = "service"
              /\ \A k \in 2 .. Len(t) : t[k].e = "interrupt" => k = 2
              /\ \A k \in 2 .. Len(t) :
                    t[k].e = "fetch" => k = IF t[2].e = "interrupt" THEN 3 ELSE 2
              /\ t[2].e = "interrupt" /\ at' = "idle"
                 => /\ t[3] = [e |-> "fetch", a |-> pc]
                    /\ pc # cpu.r[R_PC]
                    /\ cpu'.r[R_PCBP] = new_pcbp
                    /\ cpu'.r[R_PC] = pc + 1
                    /\ cpu'.ir.opcode = NOP]_vars

\* A's CALLPS was due, and the step ran the first instruction of the handler
HandlerRanFirst ==
    /\ out.op = "step"
    /\ out.trace = <<[e |-> "service", a |-> 0], [e |-> "interrupt", a |-> 61],
                     [e |-> "fetch", a |-> Layout.prog_i]>>
    /\ cpu.r[R_PC] = Layout.prog_i + 1
    /\ cpu.ir.opcode = NOP
    /\ bus_read_byte(bus, Layout.prog_a + 1).res.v = 172

(***************************************************************************)
(* One step() of the CPU, loop pass by loop pass.  The variable at is the  *)
(* position inside step(): "idle" between two calls, "movblw" and "strend" *)
(* at the head of the loops of these instructions, "cs3" at the head of    *)
(* the outer loop of context_switch_3 called by CALLPS and "cs3_move" at   *)
(* the head of its inner loop.  out counts the passes of the call and      *)
(* keeps the state the call started in.                                    *)
(***************************************************************************)
\* the memory of Image and a PCB, Q, whose block list runs into the end of
\* the RAM: five words to dst, then a count taken from the string at str
WorkImage(op_a, psw_b) ==
    load_all(Image(op_a, <<112>>, psw_b),
        <<<<Layout.pcb_q, Le(F_IPL + F_R)>>,
          <<Layout.pcb_q + 4, Le(Layout.prog_b)>>,
          <<Layout.pcb_q + 8, Le(Layout.sp_b)>>,
          <<Layout.pcb_q + 64, Le(5)>>,
          <<Layout.pcb_q + 68, Le(Layout.dst)>>>>)

Inside == {"movblw", "strend", "cs3", "cs3_move"}

WorkInit ==
    /\ Quiet
    /\ mem = NewMem(MemStart, MemLen, FALSE)
    /\ \E op_a \in {<<48, 172>>, <<48, 31>>, <<48, 25>>}, psw_b \in {F_IPL, F_IPL + F_R} :
           bus = WorkImage(op_a, psw_b)
    /\ \E r0 \in {Layout.pcb_b, Layout.pcb_q, Layout.str, Layout.hole,
                  Layout.edge, Layout.prog_a},
          r2 \in {0, 3} :
           cpu = [NewCpu EXCEPT !.r = RegsA(14 * 8192, Layout.prog_a, r0, r2)]
    /\ out = [op |-> HALT, passes |-> 0, from |-> Machine(cpu, bus)]
    /\ at = "idle"

\* one pass of step() from the position pos
WorkPass(pos) ==
    /\ at = pos
    /\ \E w \in {call(Machine(cpu, bus), [op |-> "pass", at |-> pos])} :
           /\ cpu' = w.m.cpu
           /\ bus' = w.m.bus
           /\ at' = w.at
           /\ out' = IF pos = "idle"
                     THEN [op |-> w.m.cpu.ir.opcode, passes |-> 0,
                           from |-> Machine(cpu, bus)]
                     ELSE [out EXCEPT !.passes = IF w.body THEN @ + 1 ELSE @]
    /\ UNCHANGED <<DuartVars, mem>>

\* step() up to the first loop head, or to its end when the instruction
\* has no loop
WorkBegin == cpu.steps < MaxSteps /\ WorkPass("idle")

\* one test of the loop of MOVBLW, and its body or the end of step()
MovblwPass == WorkPass("movblw")

\* one test of the loop of STREND, and its body or the end of step()
StrendPass == WorkPass("strend")

\* one test of the outer loop of context_switch_3, and the head of its
\* body or the rest of CALLPS and of step()
Cs3Block == WorkPass("cs3")

\* one test of the inner loop of context_switch_3, and its body or the
\* tail of the outer loop's body
Cs3Move == WorkPass("cs3_move")

NextWork ==
    \/ WorkBegin
    \/ MovblwPass
    \/ StrendPass
    \/ Cs3Block
    \/ Cs3Move

SpecWork == WorkInit /\ [][NextWork]_vars

\* the passes of a call add up to what step() makes of the state the call
\* started in
WorkAgrees ==
    at \notin Inside /\ cpu.steps > 0 =>
        \E s \in {step(out.from)} : cpu = s.m.cpu /\ bus = s.m.bus

\* the bytes between r0 and the end of the RAM, the highest device of the bus
Left == bus.ram.start_address + bus.ram.len - cpu.r[0]

\* C16: every call of step() ends after a bounded amount of work: a pass of
\* the loop of MOVBLW, of STREND or of the block copy of context_switch_3
\* that leaves the call inside a loop has read the bus at r0 and moved r0
\* up, so the number of bytes left between r0 and the end of the RAM has
\* gone down and is not negative
StepTerminates ==
    [][(at \in Inside /\ at' \in Inside) => (Left' >= 0 /\ Left' < Left)]_vars

\* a CALLPS whose block copy took six passes or more is over
BlockCopyOver == at \notin Inside /\ out.op = CALLPS /\ out.passes >= 6

(***************************************************************************)
(* C21.  The error returned by a write to a read-only region is the        *)
(* permission error, not the write error, the range error or any other     *)
(* kind of bus error, for every address and every access width.            *)
(***************************************************************************)
ReadOnlyWriteIsPermission ==
    out.op = "write" /\ mem.is_read_only => out.res = Err("Permission")

(***************************************************************************)
(* The frame buffer (src/bus.rs): the video-start register at 0x500000 is  *)
(* written, bytes, half-words and words are written at the first and the   *)
(* last addresses of the window of a register of 0, at a ROM address and   *)
(* at an address of no device, and the video slice is read.                *)
(***************************************************************************)
\* 0x500000, 0x700000, 0x700001, 0x718ffc, 0x718fff, 0x719000, ROM, no device
VidAddrs == {5242880, 7340032, 7340033, 7442428, 7442431, 7442432, 0, 1048576}

VidWrite ==
    \E a \in VidAddrs, n \in {1, 2, 4} : \E v \in WriteVals(n) :
        BusCall(CASE n = 1 -> bus_write_byte(bus, a, v)
                  [] n = 2 -> bus_write_half(bus, a, v)
                  [] OTHER -> bus_write_word(bus, a, v),
                "write", n, a, v)

NextVid ==
    \/ VidWrite
    \/ BusVideoRam

SpecVid == BusInit /\ [][NextVid]_vars

\* the 16-bit value V of the video-start register, the byte at 0x500000
\* being the more significant one
VideoStart(b) == 256 * ram_at(b.vid.ram, 0) + ram_at(b.vid.ram, 1)

\* address lies in the window [V*4, V*4 + 0x19000) of the RAM at 0x700000
InVideoWindow(b, address) ==
    /\ address >= 7340032 + VideoStart(b) * 4
    /\ address < 7340032 + VideoStart(b) * 4 + 102400

(***************************************************************************)
(* C22.  With V the value of the video-start register before the write, a  *)
(* bus write of any width sets the dirty flag of the frame buffer if and   *)
(* only if its address lies in the window [V*4, V*4 + 0x19000) of the RAM; *)
(* a write to an address outside the window leaves the flag as it was.     *)
(***************************************************************************)
DirtyIffInWindow ==
    [][out'.op = "write" =>
          bus'.video_ram_dirty
              = (bus.video_ram_dirty \/ InVideoWindow(bus, out'.address))]_vars

\* C22 as amended: the same for every write that passes the alignment test
\* of its width; a misaligned half-word or word write leaves the flag as it
\* was even inside the window
DirtyIffInWindowAligned ==
    [][out'.op = "write" =>
          bus'.video_ram_dirty
              = (bus.video_ram_dirty
                 \/ (out'.address % out'.n = 0
                     /\ InVideoWindow(bus, out'.address)))]_vars

\* with the window moved up by the register, a write at 0x719000, past the
\* end of the window of a register of 0, has set the flag
DirtyInMovedWindow ==
    /\ out.op = "write"
    /\ out.address = 7442432
    /\ VideoStart(bus) > 0
    /\ bus.video_ram_dirty

(***************************************************************************)
(* One instruction with operands.  The instruction is loaded at the PC, in *)
(* the ROM or in the RAM, and one step() executes it.  A u32 below 2^31 is *)
(* kept as itself and a u32 from 2^31 on as the number minus 2^32: the     *)
(* same 32 bits, read as an i32.  out keeps the registers the step started *)
(* with and the bytes of the instruction.                                  *)
(***************************************************************************)
\* where the instruction is (5 in the ROM, the base of the RAM), and a
\* place in the RAM for operands in memory
OpsLayout == [rom_pc |-> 5, ram_pc |-> 7340032, data |-> 7340288]

\* a branch opcode and its displacement: -1, 6 and the most negative one
BranchPrograms ==
    {<<opcode, d>> : opcode \in ByteBranches, d \in {255, 6, 128}}
    \cup {<<opcode, d[1], d[2]>> :
             opcode \in HalfBranches, d \in {<<255, 255>>, <<6, 0>>, <<0, 128>>}}

\* MOVW &0x8000,%r2   MOVW &0xff,%r2 (byte immediate)   MOVW &0x7fff,%r2
\* MOVB &0x1234,%r0   MOVB &0xff,%r3   MOVH &0x12345678,%r3
\* MOVB %r1,%r3   MOVH %r1,%r3   MOVW %r1,%r3   MOVW &5,%r3   MOVW &-1,%r3
\* MOVW &0x12345678,%r3   MOVB %r1,4(%r3)   MOVH &0x8000,%r3   MOVW &0x7f,%r2
MovPrograms ==
    {<<MOVW, 95, 0, 128, 66>>, <<MOVW, 111, 255, 66>>, <<MOVW, 95, 255, 127, 66>>,
     <<MOVW, 111, 127, 66>>,
     <<MOVB, 95, 52, 18, 64>>, <<MOVB, 111, 255, 67>>,
     <<MOVH, 79, 120, 86, 52, 18, 67>>,
     <<MOVB, 65, 67>>, <<MOVH, 65, 67>>, <<MOVW, 65, 67>>,
     <<MOVW, 5, 67>>, <<MOVW, 255, 67>>,
     <<MOVW, 79, 120, 86, 52, 18, 67>>, <<MOVB, 65, 195, 4>>,
     <<MOVH, 95, 0, 128, 67>>}

\* ADDB2 &0xff,%r3 (byte immediate)   ADDB2 %r1,%r3   ADDB2 &1,%r3
\* ADDB2 &-1,%r3   ADDB2 4(%r1),%r3   ADDH2 %r1,%r3   ADDW2 %r1,%r3
\* ADDB3 %r1,%r3,%r2   ADDH3 %r1,%r3,%r2   ADDW3 %r1,%r3,%r2
AddPrograms ==
    {<<ADDB2, 111, 255, 67>>, <<ADDB2, 65, 67>>, <<ADDB2, 1, 67>>,
     <<ADDB2, 255, 67>>, <<ADDB2, 193, 4, 67>>,
     <<ADDH2, 65, 67>>, <<ADDW2, 65, 67>>,
     <<ADDB3, 65, 67, 66>>, <<ADDH3, 65, 67, 66>>, <<ADDW3, 65, 67, 66>>}

\* CMPB %r1,%r3   CMPH %r1,%r3   CMPW %r1,%r3   CMPB &0xff,%r3
\* CMPB %r1,4(%r3)
CmpPrograms ==
    {<<CMPB, 65, 67>>, <<CMPH, 65, 67>>, <<CMPW, 65, 67>>,
     <<CMPB, 111, 255, 67>>, <<CMPB, 65, 195, 4>>}

\* MOVB {sbyte}%r0,{uhalf}4(%r1)   MOVB {sbyte}%r1,%r3   MOVB %r1,{uhalf}%r3
\* ADDB3 {word}%r1,%r3,%r2   MOVB {sbyte}&-1,%r3   MOVW {half}&0x1234,%r3
\* MOVB {sbyte}{uhalf}%r1,%r3   MOVB {sbyte}&5,%r3   MOVB {5}%r1,%r3
ExpandedPrograms ==
    {<<MOVB, 231, 64, 226, 193, 4>>, <<MOVB, 231, 65, 67>>, <<MOVB, 65, 226, 67>>,
     <<ADDB3, 228, 65, 67, 66>>, <<MOVB, 231, 255, 67>>,
     <<MOVW, 230, 95, 52, 18, 67>>,
     <<MOVB, 231, 226, 65, 67>>, <<MOVB, 231, 5, 67>>, <<MOVB, 229, 65, 67>>}

\* what R1 and R3 hold: small numbers, the ends of the byte and of the
\* half-word, 0xffffffff, 0x80000000 and the address of the operands in
\* memory
OperandVals == {0, 1, 127, 128, 255, 256, 32768, 65535, -1, -2147483647 - 1,
           OpsLayout.data}

\* the instruction prog at pc, and 0xff, 0x01 at offset 4 of the operands
\* in memory
OpsImage(prog, pc) ==
    load_all(DmdBus, <<<<pc, prog>>, <<OpsLayout.data + 4, <<255, 1>>>>>>)

OpsRegs(psw, pc, r1, r3) ==
    [i \in 0 .. 15 |->
        CASE i = 0 -> 385
          [] i = 1 -> r1
          [] i = 3 -> r3
          [] i = R_PSW -> psw
          [] i = R_SP -> OpsLayout.data + 64
          [] i = R_PC -> pc
          [] OTHER -> 16 + i]

\* the instruction, where it is, the flags N, Z, V, C and R1, R3
OpsStart(prog, pc, flags, r1, r3) ==
    /\ bus = OpsImage(prog, pc)
    /\ cpu = [NewCpu EXCEPT !.r = OpsRegs(flags * F_C, pc, r1, r3)]
    /\ out = [op |-> "none", res |-> "none", from |-> cpu.r, prog |-> prog]

OpsInit ==
    /\ Quiet
    /\ mem = NewMem(MemStart, MemLen, FALSE)
    /\ \/ \E prog \in BranchPrograms, pc \in {OpsLayout.rom_pc, OpsLayout.ram_pc},
             flags \in 0 .. 15 :
              OpsStart(prog, pc, flags, 1, 1)
       \/ \E prog \in MovPrograms \cup AddPrograms \cup CmpPrograms
                      \cup ExpandedPrograms,
             flags \in {0, 15}, r1 \in OperandVals, r3 \in OperandVals :
              OpsStart(prog, OpsLayout.ram_pc, flags, r1, r3)
    /\ at = "idle"

\* Cpu::step, once
OpsStep ==
    /\ at = "idle"
    /\ cpu.steps = 0
    /\ \E s \in {call(Machine(cpu, bus), [op |-> "step"])} :
           /\ cpu' = s.m.cpu
           /\ bus' = s.m.bus
           /\ at' = IF s.m.err = "none" THEN "idle" ELSE s.m.err
           /\ out' = [out EXCEPT !.op = "step", !.res = s.res]
    /\ UNCHANGED <<DuartVars, mem>>

NextOps == OpsStep

SpecOps == OpsInit /\ [][NextOps]_vars

\* the step has executed the instruction it was given to its end
Stepped == out.op = "step" /\ out.res = "none" /\ at = "idle"

\* the flag f of the PSW psw
Flag(psw, f) == (psw \div f) % 2 = 1

\* the displacement in the bytes of the branch prog, sign-extended
Displacement(prog) ==
    IF Len(prog) = 2
    THEN IF prog[2] >= 128 THEN prog[2] - 256 ELSE prog[2]
    ELSE IF prog[3] >= 128 THEN prog[2] + 256 * prog[3] - 65536
         ELSE prog[2] + 256 * prog[3]

\* the condition of the branch opcode holds in the PSW psw
ConditionHolds(opcode, psw) ==
    branch_taken(Machine([cpu EXCEPT !.r[R_PSW] = psw], bus), opcode)

(***************************************************************************)
(* C23.  After the step of a branch B..B or B..H, the PC is the PC before  *)
(* the step plus the sign-extended displacement when the condition of the  *)
(* branch holds in the flags the step started with (the length of the      *)
(* instruction is not added), and the PC before the step plus the length   *)
(* of the instruction when it does not hold.                               *)
(***************************************************************************)
BranchSetsPc ==
    Stepped /\ out.prog[1] \in HalfBranches \cup ByteBranches =>
        cpu.r[R_PC] = out.from[R_PC]
                      + (IF ConditionHolds(out.prog[1], out.from[R_PSW])
                         THEN Displacement(out.prog)
                         ELSE Len(out.prog))

\* BEB &-1 at PC = 5 with Z set has been executed and the PC is 4
BebTakenBackwards ==
    /\ Stepped
    /\ out.prog = <<BEB, 255>>
    /\ out.from[R_PC] = 5
    /\ Flag(out.from[R_PSW], F_Z)
    /\ cpu.r[R_PC] = 4

MovOpcodes == {MOVB, MOVH, MOVW}

AddOpcodes == {ADDB2, ADDH2, ADDW2, ADDB3, ADDH3, ADDW3}

\* the index of the operand that the instruction opcode writes
Destination(opcode) == IF opcode \in {ADDB3, ADDH3, ADDW3} THEN 2 ELSE 1

\* the low bits of the u32 v that the data type t has room for
Truncated(v, t) ==
    CASE t \in {"Byte", "SByte"} -> v % 256
      [] t \in {"Half", "UHalf"} -> v % 65536
      [] OTHER -> v

(***************************************************************************)
(* C24.  After the step of a MOV or ADD instruction whose destination is a *)
(* register, the register holds the value that was written (the data field *)
(* of the destination operand) truncated to the effective data type of the *)
(* operand: its low 8 bits for a byte operand, its low 16 bits for a       *)
(* half-word operand.                                                      *)
(***************************************************************************)
RegisterWriteTruncates ==
    /\ Stepped
    /\ out.prog[1] \in MovOpcodes \cup AddOpcodes
    /\ cpu.ir.operands[Destination(out.prog[1])].mode = "Register"
    => cpu.r[cpu.ir.operands[Destination(out.prog[1])].register]
       = Truncated(cpu.ir.operands[Destination(out.prog[1])].data,
                   data_type(cpu.ir.operands[Destination(out.prog[1])]))

\* the byte that the source operand of the ADDB2 in out.prog stands for: the
\* byte immediate, the low byte of R1, the byte in memory at 4(%r1), or the
\* literal in the descriptor byte
AddbSource ==
    CASE out.prog[2] = 111 -> out.prog[3]
      [] out.prog[2] = 65 -> out.from[1] % 256
      [] out.prog[2] = 193 -> bus_read_byte(bus, out.from[1] + 4).res.v
      [] OTHER -> out.prog[2]

(***************************************************************************)
(* C25.  After the step of ADDB2 with the byte source a and the register   *)
(* destination R3 holding the byte b, R3 holds (a + b) mod 256, C is set   *)
(* exactly when a + b exceeds 0xFF, and Z is set exactly when              *)
(* (a + b) mod 256 is 0.                                                   *)
(***************************************************************************)
AddbGivesByteSum ==
    /\ Stepped
    /\ out.prog \in AddPrograms
    /\ out.prog[1] = ADDB2
    /\ out.from[3] \in 0 .. 255
    => /\ cpu.r[3] = (AddbSource + out.from[3]) % 256
       /\ Flag(cpu.r[R_PSW], F_C) = (AddbSource + out.from[3] > 255)
       /\ Flag(cpu.r[R_PSW], F_Z) = ((AddbSource + out.from[3]) % 256 = 0)

CmpOpcodes == {CMPB, CMPH, CMPW}

\* the number of bits of the operands of the comparison opcode
CmpWidth(opcode) == CASE opcode = CMPB -> 8 [] opcode = CMPH -> 16 [] OTHER -> 32

\* the low bits of the u32 v, as an unsigned number of that width; a word
\* stays the u32 it is
Unsigned(v, bits) == IF bits = 32 THEN v ELSE v % (2 ^ bits)

\* the same bits as a signed number of that width
Signed(v, bits) ==
    IF bits = 32 THEN v
    ELSE IF v % (2 ^ bits) >= 2 ^ (bits - 1)
         THEN (v % (2 ^ bits)) - 2 ^ bits
         ELSE v % (2 ^ bits)

\* b < a as unsigned numbers of that width
UnsignedLess(b, a, bits) ==
    IF bits = 32
    THEN IF (a < 0) = (b < 0) THEN b < a ELSE a < 0
    ELSE Unsigned(b, bits) < Unsigned(a, bits)

\* the first operand of the comparison in out.prog: the byte immediate or R1
CmpFirst == IF out.prog[2] = 111 THEN out.prog[3] ELSE cpu.r[1]

\* its second operand: R3, or what is in memory at 4(%r3)
CmpSecond ==
    IF out.prog[Len(out.prog) - 1] = 195
    THEN bus_read_byte(bus, cpu.r[3] + 4).res.v
    ELSE cpu.r[3]

\* the flags of psw are those of comparing b with a
CmpFlags(psw, a, b, bits) ==
    /\ Flag(psw, F_Z) = (Unsigned(b, bits) = Unsigned(a, bits))
    /\ Flag(psw, F_N) = (Signed(b, bits) < Signed(a, bits))
    /\ Flag(psw, F_C) = UnsignedLess(b, a, bits)
    /\ ~Flag(psw, F_V)

(***************************************************************************)
(* C26.  A step that executes CMPB, CMPH or CMPW with the first operand a  *)
(* and the second operand b changes only the flags: the registers other    *)
(* than the PSW and the PC, the bits of the PSW other than N, Z, V, C and  *)
(* the memory stay as they were, and the PC moves past the instruction.    *)
(* Afterwards Z is (b = a), N is (b < a) as signed numbers of the operand  *)
(* width, C is (b < a) as unsigned numbers of that width, and V is clear.  *)
(***************************************************************************)
CmpSetsOnlyFlags ==
    [][out'.op = "step" /\ out'.res = "none" /\ out.prog[1] \in CmpOpcodes =>
          /\ \A i \in (0 .. 15) \ {R_PSW, R_PC} : cpu'.r[i] = cpu.r[i]
          /\ cpu'.r[R_PC] = cpu.r[R_PC] + Len(out.prog)
          /\ cpu'.r[R_PSW] \div (16 * F_C) = cpu.r[R_PSW] \div (16 * F_C)
          /\ cpu'.r[R_PSW] % F_C = cpu.r[R_PSW] % F_C
          /\ [bus' EXCEPT !.duart = bus.duart] = bus
          /\ CmpFlags(cpu'.r[R_PSW], CmpFirst, CmpSecond, CmpWidth(out.prog[1]))]_vars

\* CMPB %r1,%r3 has compared the bytes of R1 = 0x100 and R3 = 1: N and C are
\* clear although R3 is below R1, and V has been cleared
CmpbComparesLowBytes ==
    /\ Stepped
    /\ out.prog = <<CMPB, 65, 67>>
    /\ out.from[1] = 256 /\ out.from[3] = 1
    /\ Flag(out.from[R_PSW], F_V)
    /\ cpu.r[R_PSW] % (16 * F_C) = 0
    /\ cpu.r[3] = 1

\* the immediate in the bytes of prog, a byte (descriptor 0x6f), a half-word
\* (0x5f) or a word (0x4f), sign-extended from its width to 32 bits
Immediate(prog) ==
    CASE prog[2] = 111 -> IF prog[3] >= 128 THEN prog[3] - 256 ELSE prog[3]
      [] prog[2] = 95 ->
           IF prog[4] >= 128 THEN prog[3] + 256 * prog[4] - 65536
           ELSE prog[3] + 256 * prog[4]
      [] OTHER -> prog[3] + 256 * prog[4] + 65536 * prog[5] + 16777216 * prog[6]

(***************************************************************************)
(* C27.  After the step of MOVW with an immediate source and a register    *)
(* destination, the register holds the immediate sign-extended from its    *)
(* encoded width to 32 bits: 0xFFFF8000 for the half-word immediate 0x8000 *)
(* and 0xFFFFFFFF for the byte immediate 0xFF.                             *)
(***************************************************************************)
ImmediateIsSignExtended ==
    /\ Stepped
    /\ out.prog[1] = MOVW
    /\ out.prog[2] \in {111, 95, 79}
    => cpu.r[out.prog[Len(out.prog)] - 64] = Immediate(out.prog)

\* MOVW &0x8000,%r2 has been executed and R2 is 0xFFFF8000
MovwNegativeHalfword ==
    /\ Stepped
    /\ out.prog = <<MOVW, 95, 0, 128, 66>>
    /\ cpu.r[2] = -32768
    /\ cpu.r[R_PC] = out.from[R_PC] + 5

(***************************************************************************)
(* Reset.  The word at 0x80 points at the initial PCB, in the ROM, in the  *)
(* RAM or where no device is; the CPU is reset with registers that hold    *)
(* what earlier steps left in them, and then steps from the PC of the PCB. *)
(***************************************************************************)
ResetLayout ==
    [rom_pcb |-> 144, ram_pcb |-> 7340416, hole |-> 3145728,
     pc |-> 7340032, sp |-> 7340544]

\* the PSW of the initial PCB: nothing set; I; the IPL; the IPL, I and ISC
ResetPsw == {0, F_I, F_IPL, F_IPL + F_I + F_ISC}

\* the ROM with the vector at 0x80, the PCB it points at and NOP at the PC
ResetImage(pcb, psw) ==
    load_all(DmdBus,
        <<<<128, Le(pcb)>>,
          <<ResetLayout.rom_pcb, Le(psw) \o Le(ResetLayout.pc) \o Le(ResetLayout.sp)>>,
          <<ResetLayout.ram_pcb, Le(psw) \o Le(ResetLayout.pc) \o Le(ResetLayout.sp)>>,
          <<ResetLayout.pc, <<112>>>>>>)

\* registers before the reset: r0 in R0 to R3, r8 in R4 to R8, fp in FP and
\* AP, isp in ISP
ResetRegs(r0, r8, fp, isp, psw) ==
    [i \in 0 .. 15 |->
        CASE i \in 0 .. 3 -> r0
          [] i \in 4 .. 8 -> r8
          [] i \in {R_FP, R_AP} -> fp
          [] i = R_ISP -> isp
          [] i = R_PSW -> psw
          [] OTHER -> 16 + i]

ResetInit ==
    /\ Quiet
    /\ mem = NewMem(MemStart, MemLen, FALSE)
    /\ \E pcb \in {ResetLayout.rom_pcb, ResetLayout.ram_pcb, ResetLayout.hole},
          psw \in ResetPsw :
           bus = ResetImage(pcb, psw)
    /\ \E r0 \in {0, 5}, r8 \in {0, -1}, fp \in {0, ResetLayout.sp},
          isp \in {0, ResetLayout.sp}, psw \in {0, 15 * F_C + F_CM} :
           cpu = [NewCpu EXCEPT !.r = ResetRegs(r0, r8, fp, isp, psw)]
    /\ out = [op |-> "none", res |-> "none", from |-> cpu.r]
    /\ at = "idle"

\* Cpu::reset
ResetCpu ==
    /\ at = "idle"
    /\ \E m \in {call(Machine(cpu, bus), [op |-> "reset"])} :
           /\ cpu' = m.cpu
           /\ bus' = m.bus
           /\ out' = [op |-> "reset", res |-> m.err, from |-> cpu.r]
    /\ UNCHANGED <<DuartVars, mem, at>>

\* Cpu::step after a reset
ResetStep ==
    /\ at = "idle"
    /\ out.op = "reset" /\ out.res = "none"
    /\ cpu.steps = 0
    /\ \E s \in {call(Machine(cpu, bus), [op |-> "step"])} :
           /\ cpu' = s.m.cpu
           /\ bus' = s.m.bus
           /\ at' = IF s.m.err = "none" THEN "idle" ELSE s.m.err
           /\ out' = [op |-> "step", res |-> s.res, from |-> cpu.r]
    /\ UNCHANGED <<DuartVars, mem>>

NextReset ==
    \/ ResetCpu
    \/ ResetStep

SpecReset == ResetInit /\ [][NextReset]_vars

\* the initial PCB is where the word at 0x80 says
ResetPcb == bus_read_word(bus, 128).res.v

ResetLoadsPcb ==
    /\ cpu.r[R_PCBP] \in {ResetPcb, ResetPcb + 12}
    /\ Clear32(cpu.r[R_PSW], F_I + F_ISC)
       = Clear32(bus_read_word(bus, ResetPcb).res.v, F_I + F_ISC)
    /\ cpu.r[R_PC] = bus_read_word(bus, ResetPcb + 4).res.v
    /\ cpu.r[R_SP] = bus_read_word(bus, ResetPcb + 8).res.v

(***************************************************************************)
(* C28.  After a reset that returned Ok, the registers R0 to R8, FP, AP    *)
(* and ISP are 0 whatever they held before, and PCBP, PSW, PC and SP hold  *)
(* the values read via 0x80: PCBP the word at 0x80 (advanced by 12 when    *)
(* the PSW read has I set), PSW the word at that address apart from its I  *)
(* and ISC fields, PC and SP the words 4 and 8 bytes after it.             *)
(***************************************************************************)
ResetClearsRegisters ==
    out.op = "reset" /\ out.res = "none" =>
        /\ \A i \in (0 .. 8) \cup {R_FP, R_AP, R_ISP} : cpu.r[i] = 0
        /\ ResetLoadsPcb

\* the program of Programs that has n bytes
ProgramOf(n) == CHOOSE prog \in Programs : Len(prog) = n

\* the region now is the region before with prog at offset, and nothing
\* else changed
Copied(before, now, offset, prog) ==
    /\ \A i \in 0 .. (before.len - 1) :
           ram_at(now.ram, i)
           = IF i >= offset /\ i < offset + Len(prog)
             THEN prog[i - offset + 1]
             ELSE ram_at(before.ram, i)
    /\ DOMAIN now.ram \subseteq 0 .. (before.len - 1)
    /\ [now EXCEPT !.ram = before.ram] = before

(***************************************************************************)
(* C29.  load(addr, bytes) on a memory region is all-or-nothing: when      *)
(* addr - base + len(bytes) exceeds the length of the region it returns an *)
(* error and the region is as it was; otherwise it returns Ok and the      *)
(* region holds all the bytes from addr on and is otherwise as it was,     *)
(* whether or not the region is read-only.                                 *)
(***************************************************************************)
LoadAllOrNothing ==
    [][out'.op = "load" =>
          IF (out'.address - mem.start_address) + out'.n > mem.len
          THEN /\ ~out'.res.ok
               /\ out'.res.err # "panic"
               /\ mem' = mem
          ELSE /\ out'.res.ok
               /\ Copied(mem, mem', out'.address - mem.start_address,
                         ProgramOf(out'.n))]_vars

\* the descriptor bytes of the expanded types: 0xe0, 0xe2, 0xe3, 0xe4, 0xe6
\* and 0xe7
TypeDescriptors == {224, 226, 227, 228, 230, 231}

\* the operands of the instruction in prog that an expanded-type descriptor
\* wraps, prog being one of ExpandedPrograms
Wrapped(prog) ==
    CASE prog[2] \notin TypeDescriptors -> {1}
      [] prog[2] \in TypeDescriptors /\ Len(prog) = 6 /\ prog[4] \in TypeDescriptors ->
           {0, 1}
      [] OTHER -> {0}

\* the number of operands of the instruction opcode
Operands(opcode) == IF opcode \in {ADDB3, ADDH3, ADDW3} THEN 3 ELSE 2

\* a descriptor of prog wraps another descriptor
Nested(prog) == prog[2] \in TypeDescriptors /\ prog[3] \in TypeDescriptors

\* the step has decoded the instruction it was given: decode_instruction
\* has stored the opcode and the length
Decoded == out.op = "step" /\ cpu.ir.opcode = out.prog[1] /\ cpu.ir.bytes > 0

(***************************************************************************)
(* C30.  When an instruction with expanded-type descriptors, none of them  *)
(* wrapping another, has been decoded, every operand that no descriptor    *)
(* wraps has the declared data type of the instruction as its effective    *)
(* data type, also when it is decoded after a wrapped operand, and the     *)
(* length of the instruction counts one byte for each descriptor: it is    *)
(* the number of bytes of the encoding.                                    *)
(***************************************************************************)
ExpandedTypeIsLocal ==
    Decoded /\ out.prog \in ExpandedPrograms /\ ~Nested(out.prog) =>
        /\ \A i \in (0 .. (Operands(out.prog[1]) - 1)) \ Wrapped(out.prog) :
               data_type(cpu.ir.operands[i]) = cpu.ir.data_type
        /\ cpu.ir.bytes = Len(out.prog)

(***************************************************************************)
(* A FifoQueue used by itself: characters are pushed and popped and the    *)
(* queue is cleared, in any order.  out keeps the last call, its Result    *)
(* and the errors that calls have returned so far.                         *)
(***************************************************************************)
FifoChars == {17, 34}

FifoCalled(op, val, r, c) ==
    /\ fifo' = r.fifo
    /\ out' = [op |-> op, val |-> val, res |-> r.res, c |-> c,
               failed |-> out.failed \cup ({r.res} \ {"Ok"})]
    /\ UNCHANGED <<duart, focus, last, pend, rxmon, txmon, ipmon, mem, bus,
                   cpu, at>>

FifoInit ==
    /\ Quiet
    /\ mem = NewMem(MemStart, MemLen, FALSE)
    /\ bus = DmdBus
    /\ cpu = NewCpu
    /\ at = "idle"
    /\ out = [op |-> "none", val |-> 0, res |-> "Ok", c |-> 0, failed |-> {}]

FifoPush == \E c \in FifoChars : FifoCalled("push", c, push(fifo, c), 0)

FifoPop == FifoCalled("pop", 0, pop(fifo), pop(fifo).c)

FifoClear == FifoCalled("clear", 0, [fifo |-> clear(fifo), res |-> "Ok"], 0)

NextFifo ==
    \/ FifoPush
    \/ FifoPop
    \/ FifoClear

SpecFifo == FifoInit /\ [][NextFifo]_vars

\* the characters that pops return from the queue f until it is empty
RECURSIVE Drained(_)
Drained(f) == IF f.len = 0 THEN <<>> ELSE <<pop(f).c>> \o Drained(pop(f).fifo)

(***************************************************************************)
(* C31.  A push on a queue that holds three characters returns Overflow    *)
(* and a pop on a queue that holds none returns Underrun, and neither      *)
(* changes the queue: its length and the characters that later pops        *)
(* return are what they were before the call.                              *)
(***************************************************************************)
FailedCallLeavesQueue ==
    [][(\/ out'.op = "push" /\ fifo.len = FIFO_LEN
        \/ out'.op = "pop" /\ fifo.len = 0)
       => /\ out'.res = (IF out'.op = "push" THEN "Overflow" ELSE "Underrun")
          /\ fifo'.len = fifo.len
          /\ Drained(fifo') = Drained(fifo)]_vars

\* both errors have been returned, the last one by a push on a queue whose
\* oldest character is not in slot 0
OverflowAndUnderrunSeen ==
    /\ out.failed = {"Overflow", "Underrun"}
    /\ out.op = "push"
    /\ out.res = "Overflow"
    /\ fifo.read_ptr # 0

\* how many of the RHR reads rds returned a character
Returned(rds) == Cardinality({i \in 1 .. Len(rds) : IsSome(rds[i])})

(***************************************************************************)
(* C32.  The RHR reads of a port return each character that the host has   *)
(* queued for it at most once: when the host has queued four characters    *)
(* for a receiver that was empty and service has received them, the RHR    *)
(* reads that follow (the host queues nothing more) return at most four    *)
(* characters.                                                             *)
(***************************************************************************)
ReadAtMostOnce ==
    \A p \in Ports :
        rxmon[p].st = "rd" => Returned(rxmon[p].rds) <= Len(rxmon[p].enq)

(***************************************************************************)
(* C33.  In every state of the DUART and for each port: when TxRDY is set  *)
(* in the status register the transmit holding register is empty, and      *)
(* when TxEMT is set the holding register and the transmit shift register  *)
(* are both empty.                                                         *)
(***************************************************************************)
TxStatusMeansEmpty ==
    \A p \in Ports :
        /\ Has(duart.ports[p].stat, STS_TXR)
             => duart.ports[p].tx_holding_reg = None
        /\ Has(duart.ports[p].stat, STS_TXE)
             => /\ duart.ports[p].tx_holding_reg = None
                /\ duart.ports[p].tx_shift_reg = None

\* the transmitter of the port P is enabled
tx_enabled(P) == Has(P.conf, CNF_ETX)

(***************************************************************************)
(* C34.  In a step that a port begins and ends with its transmitter        *)
(* disabled, nothing is added to the TX queue of the port, nothing is      *)
(* looped back into its receiver (FIFO and receive shift register are      *)
(* unchanged), and neither TxRDY nor TxEMT becomes set.                    *)
(***************************************************************************)
DisabledTransmitsNothing ==
    [][\A p \in Ports :
          ~tx_enabled(duart.ports[p]) /\ ~tx_enabled(duart'.ports[p])
          => /\ Len(duart'.ports[p].tx_deque) <= Len(duart.ports[p].tx_deque)
             /\ duart'.ports[p].rx_fifo = duart.ports[p].rx_fifo
             /\ duart'.ports[p].rx_shift_reg = duart.ports[p].rx_shift_reg
             /\ Has(duart'.ports[p].stat, STS_TXR)
                  => Has(duart.ports[p].stat, STS_TXR)
             /\ Has(duart'.ports[p].stat, STS_TXE)
                  => Has(duart.ports[p].stat, STS_TXE)]_vars

(***************************************************************************)
(* CALLPS and RETPS at any level, with and without an interrupt.  The      *)
(* PSW of the PCB of the interrupt handler I is Kernel or User and the     *)
(* instruction of I is NOP, CALLPS or RETPS; the vector of the vertical    *)
(* blank holds the address of I's PCB, that address plus one, or an        *)
(* address where no device is; A is as in SpecCpu.                         *)
(***************************************************************************)
\* PSW values of I's PCB: IPL 15, CM Kernel or User
PswI == {F_IPL, F_IPL + 3 * 2048}

PrivOps == {<<112>>, <<48, 172>>, <<48, 200>>}

\* what the vector of the vertical blank holds
PcbPointers == {Layout.pcb_i, Layout.pcb_i + 1, Layout.hole}

PrivImage(op_a, op_i, psw_i, pcb) ==
    load_all(Image(op_a, <<112>>, F_IPL),
             <<<<Layout.pcb_i, Le(psw_i)>>, <<Layout.prog_i, op_i>>,
               <<140 + 4 * 61, Le(pcb)>>>>)

PrivInit ==
    /\ Quiet
    /\ mem = NewMem(MemStart, MemLen, FALSE)
    /\ \E op_a \in PrivOps, op_i \in PrivOps, psw_i \in PswI,
          pcb \in PcbPointers :
           bus = PrivImage(op_a, op_i, psw_i, pcb)
    /\ \E psw \in PswA, r0 \in {Layout.pcb_b, Layout.str} :
           cpu = [NewCpu EXCEPT !.r = RegsA(psw, Layout.prog_a, r0, 0)]
    /\ out = NoStep
    /\ at = "idle"

NextPriv ==
    \/ CpuStep
    \/ CpuTick

SpecPriv == PrivInit /\ [][NextPriv]_vars

\* the contents of the memory devices of the bus b
Memory(b) == [rom |-> b.rom, ram |-> b.ram, bbram |-> b.bbram, vid |-> b.vid]

\* an interrupt was taken in the step that left the trace t
Interrupted(t) == \E k \in 1 .. Len(t) : t[k].e = "interrupt"

(***************************************************************************)
(* C35.  A step whose CALLPS or RETPS ends with the privileged-opcode      *)
(* exception changes no register and no memory: the sixteen registers and  *)
(* the contents of ROM, RAM, battery-backed RAM and the video register     *)
(* are the same after the step as before it.                               *)
(* RefusedStepChangesNothing is the statement for every such step;         *)
(* RefusedChangesNothing is the statement for the steps in which no        *)
(* interrupt is taken before the instruction.                              *)
(***************************************************************************)
RefusedStepChangesNothing ==
    [][/\ cpu'.steps = cpu.steps + 1
       /\ out'.res = "PrivilegedOpcode"
       /\ cpu'.ir.opcode \in {CALLPS, RETPS}
       => /\ cpu'.r = cpu.r
          /\ Memory(bus') = Memory(bus)]_vars

RefusedChangesNothing ==
    [][/\ cpu'.steps = cpu.steps + 1
       /\ out'.res = "PrivilegedOpcode"
       /\ cpu'.ir.opcode \in {CALLPS, RETPS}
       /\ ~Interrupted(out'.trace)
       => /\ cpu'.r = cpu.r
          /\ Memory(bus') = Memory(bus)]_vars

\* CALLPS has been refused at the User level, with no interrupt before it
CallpsRefused ==
    /\ out.op = "step"
    /\ out.res = "PrivilegedOpcode"
    /\ cpu.ir.opcode = CALLPS
    /\ ~Interrupted(out.trace)
    /\ cpu.r[R_PC] = Layout.prog_a
    /\ cpu.r[R_ISP] = Layout.isp

(***************************************************************************)
(* C36.  step() always returns: whatever the opcode at PC (BPT and HALT    *)
(* included) and whatever the memory holds (a PCB pointer of an interrupt  *)
(* that is misaligned or at an address with no device included), no step   *)
(* ends in a panic.                                                        *)
(***************************************************************************)
StepNeverPanics == at # "panic"

(***************************************************************************)
(* The clock-select registers by themselves: bytes are written to CSRA,    *)
(* to CSRB and to the auxiliary control register.  The write of a          *)
(* clock-select value whose table index panics leaves at = "panic"; out    *)
(* keeps the port and the index of the last clock-select write.            *)
(***************************************************************************)
\* clock-select values: every index (the high four bits), with the low four
\* bits clear and set
BaudCsrVals == {16 * hi + lo : hi \in 0 .. 15, lo \in {0, 15}}

\* auxiliary control values: table A, table B, and other bits set
BaudAcrVals == {0, 1, 127, 128, 255}

BaudInit ==
    /\ Quiet
    /\ mem = NewMem(MemStart, MemLen, FALSE)
    /\ bus = DmdBus
    /\ cpu = NewCpu
    /\ at = "idle"
    /\ out = [op |-> "none", port |-> PORT_0, index |-> 0]

\* write_byte to CSRA or CSRB
BaudClock ==
    /\ at = "idle"
    /\ \E p \in Ports, val \in BaudCsrVals :
           /\ IF delay_rate_panics(val, duart.acr)
              THEN at' = "panic" /\ duart' = duart
              ELSE at' = "idle" /\ duart' = write_byte(duart, CSR(p), val)
           /\ out' = [op |-> "csr", port |-> p, index |-> baud_bits(val)]
    /\ UNCHANGED <<focus, last, pend, rxmon, txmon, ipmon, mem, bus, cpu, fifo>>

\* write_byte to IPCR_ACR
BaudAcr ==
    /\ at = "idle"
    /\ \E val \in BaudAcrVals : duart' = write_byte(duart, IPCR_ACR, val)
    /\ out' = [out EXCEPT !.op = "acr"]
    /\ UNCHANGED <<focus, last, pend, rxmon, txmon, ipmon, mem, bus, cpu, fifo,
                   at>>

NextBaud ==
    \/ BaudClock
    \/ BaudAcr

SpecBaud == BaudInit /\ [][NextBaud]_vars

(***************************************************************************)
(* C37.  Whatever byte is written to the clock-select register of a port   *)
(* and whatever the auxiliary control register holds, the index of the     *)
(* baud-rate table lookup is one of 0 to 12, the write returns and the     *)
(* character delay of the port is then a positive number of nanoseconds.   *)
(***************************************************************************)
ClockSelectInTable ==
    out.op = "csr"
    => /\ out.index \in 0 .. 12
       /\ at = "idle"
       /\ duart.ports[out.port].char_delay > 0

(***************************************************************************)
(* C38.  A half-word or word read or write of a memory region at an        *)
(* address of the region from which the access would run past the end of   *)
(* the region (the offset plus the width is greater than the length)       *)
(* returns the range error and leaves every byte of the region as it was.  *)
(***************************************************************************)
AccessStaysInside ==
    [][/\ out'.op \in {"read", "write"}
       /\ out'.n \in {2, 4}
       /\ out'.address >= mem.start_address
       /\ out'.address - mem.start_address + out'.n > mem.len
       => /\ out'.res = Err("Range")
          /\ mem' = mem]_vars

================================================================
